---- MODULE Spec2Model ----
(***************************************************************************)
(* Model of the conversational sales backend:                              *)
(*   - OrderService.create_order / cancel_order as database transactions   *)
(*     run by concurrent requests (backend/services/order_service.py),     *)
(*   - OrderController status operations                                   *)
(*     (backend/database/controllers/orders_controller.py),                *)
(*   - Order / OrderDetail / ProductStock computed columns                 *)
(*     (backend/database/models),                                          *)
(*   - AgentOrchestrator.process_query (backend/agents/orchestrator.py).   *)
(*                                                                         *)
(* Money is an integer number of 1/100 cent, so that a price with a        *)
(* percentage discount is exact in memory and the rounding of a            *)
(* Numeric(12, 2) column is visible.                                       *)
(***************************************************************************)
EXTENDS Integers, Sequences, FiniteSets, TLC

(* ----------------------------- bounds ---------------------------------- *)

MaxStock == 1
MaxQty == 1
MaxLines == 2
MaxCalls == 2
MaxGuionCalls == 2
MaxGuionProductos == 2

(* --------------------------- vocabulary -------------------------------- *)

\* Rows of product_stocks: p1 and p2 are on sale, p3 is a row with
\* is_active = FALSE; p0 is an id with no row.
Products == {"p1", "p2", "p3"}
InactiveProducts == {"p3"}
ActiveProducts == Products \ InactiveProducts
MissingProduct == "p0"
ProductIds == Products \cup {MissingProduct}
\* The requests that can be inside the service at the same time, in the
\* order in which a new call takes a free one.
RequestOrder == <<"r1", "r2">>
Requests == {RequestOrder[i] : i \in 1..Len(RequestOrder)}
\* Ids a caller can name: those of the orders that can exist and one more.
OrderIds == 1..(MaxCalls + 1)

DRAFT == "DRAFT"
CONFIRMED == "CONFIRMED"
PAID == "PAID"
PROCESSING == "PROCESSING"
SHIPPED == "SHIPPED"
DELIVERED == "DELIVERED"
CANCELLED == "CANCELLED"
REFUNDED == "REFUNDED"
OrderStatus == {DRAFT, CONFIRMED, PAID, PROCESSING, SHIPPED, DELIVERED, CANCELLED, REFUNDED}

\* The users who are logged in.
Users == {"u1", "u2"}

\* current_user["id"] of the logged-in user who calls the guion mutations
CurrentUser == "u1"

NoOrder == 0
Cent == 100

VARIABLES
    product_stocks,   \* table product_stocks: id -> row
    init_stock,       \* quantity_available of every product at start
    orders,           \* table orders (with order_details): sequence, id = index
    txn,              \* per request: the open database session of the service
    result,           \* what the service call ended by the last step returned or raised
    last_create,      \* the order of the create_order just committed and the stock before it
    calls             \* number of service calls that went past their early returns

VARIABLES
    pc,                  \* position of the turn inside process_query
    state,               \* the AgentState of the turn
    current_agent_name,  \* local variable, "unbound" until assigned
    response,            \* local variable response, returned at the end
    transfer_count,      \* local variable
    transfer_history,    \* local variable: sequence of transfer keys
    outcome,             \* how the call ended: "returned" or "raised"
    failed,              \* whether any stage of this turn raised
    invoked,             \* what the turn has called so far, in order
    session_store        \* Redis key session:{session_id}: the saved AgentState and its TTL

VARIABLES
    guion_sessions,   \* Redis keys guion_session:{session_id}: session_data and its TTL
    guion_response,   \* what the last guion mutation returned
    chat_history,     \* table chat_history: the messages add_message has written
    guion_calls,      \* number of guion mutations called so far
    in_flight         \* request -> the continuation it is in, between its Redis get and its writes

VARIABLES
    last_call,        \* the call of a service made last: its name and arguments
    last_result       \* what that call returned or raised

order_vars == <<product_stocks, init_stock, orders, txn, result, last_create, calls>>

orch_vars == <<pc, state, current_agent_name, response, transfer_count,
               transfer_history, outcome, failed, invoked, session_store>>

guion_vars == <<guion_sessions, guion_response, chat_history, guion_calls, in_flight>>

svc_vars == <<last_call, last_result>>

vars == <<order_vars, orch_vars, guion_vars, svc_vars>>

(* ------------------------ pure functions ------------------------------- *)

RECURSIVE SumSeq(_)
SumSeq(s) == IF s = <<>> THEN 0 ELSE Head(s) + SumSeq(Tail(s))

Max(a, b) == IF a >= b THEN a ELSE b

\* A Numeric(12, 2) column keeps two decimals: the value is rounded to a
\* whole number of cents when the row is written (ties away from zero).
Numeric_12_2(x) ==
    IF x >= 0 THEN ((x + (Cent \div 2)) \div Cent) * Cent
    ELSE -(((-x + (Cent \div 2)) \div Cent) * Cent)

\* ProductStock.final_price
final_price(row) ==
    IF ~row.is_on_sale THEN row.unit_cost
    ELSE LET p1 == IF row.discount_percent > 0
                   THEN row.unit_cost - ((row.unit_cost * row.discount_percent) \div 100)
                   ELSE row.unit_cost
             p2 == IF row.discount_amount > 0 THEN p1 - row.discount_amount ELSE p1
         IN Max(p2, 0)

\* OrderDetail.subtotal
subtotal(detail) == (detail.unit_price * detail.quantity) - detail.discount_amount

\* Order.calculate_totals: the pair (subtotal, total_amount) it assigns
calculate_totals(details, tax_amount, shipping_cost, discount_amount) ==
    LET sub == IF details # <<>>
               THEN SumSeq([i \in 1..Len(details) |-> subtotal(details[i])])
               ELSE 0
        tot == sub + tax_amount + shipping_cost - discount_amount
    IN [subtotal |-> sub, total_amount |-> IF tot < 0 THEN 0 ELSE tot]

\* Order.can_transition_to
valid_transitions ==
    [s \in OrderStatus |->
        CASE s = DRAFT      -> {CONFIRMED, CANCELLED}
          [] s = CONFIRMED  -> {PAID, CANCELLED}
          [] s = PAID       -> {PROCESSING, REFUNDED}
          [] s = PROCESSING -> {SHIPPED, CANCELLED}
          [] s = SHIPPED    -> {DELIVERED}
          [] s = DELIVERED  -> {REFUNDED}
          [] s = CANCELLED  -> {}
          [] s = REFUNDED   -> {}]

can_transition_to(status, new_status) == new_status \in valid_transitions[status]

(* ------------------- database session of a request --------------------- *)

\* The session's identity map: the products it has loaded (in_session) and
\* their quantity_available as the session sees it (qty).
EmptySession == [in_session |-> {}, qty |-> [p \in Products |-> 0]]

IdleTxn ==
    [pc |-> "idle", idx |-> 0, session |-> EmptySession,
     details |-> <<>>, order_id |-> NoOrder]

\* What a service call returned or raised: the operation, whether it
\* succeeded, the exception or message of a failure, the order concerned,
\* and the line of the input and the product at which create_order raised.
NoResult ==
    [op |-> "none", ok |-> FALSE, error |-> "none", order |-> NoOrder,
     line |-> 0, product |-> "none"]
Failure(op, error, order, line, product) ==
    [op |-> op, ok |-> FALSE, error |-> error, order |-> order,
     line |-> line, product |-> product]
Success(op, order) ==
    [op |-> op, ok |-> TRUE, error |-> "none", order |-> order,
     line |-> 0, product |-> "none"]

\* The messages of the failures cancel_order returns.
PedidoNoEncontrado == "Pedido no encontrado"
NoSePuedeCancelar == "No se puede cancelar un pedido"
ErrorCancelando == "Error cancelando el pedido"

\* A new call runs as the first request that is not inside the service.
FreeRequest(t) ==
    \E i \in 1..Len(RequestOrder) :
        /\ RequestOrder[i] = t
        /\ txn[t].pc = "idle"
        /\ \A j \in 1..(i - 1) : txn[RequestOrder[j]].pc # "idle"

\* quantity_available of product p as the session sees it: the object in the
\* identity map if the product was loaded before, else the committed row.
Available(sess, p) ==
    IF p \in sess.in_session THEN sess.qty[p] ELSE product_stocks[p].quantity_available

\* select(ProductStock).where(id == product_id, is_active == True)
SelectActiveProduct(product_id) ==
    product_id \in Products /\ product_stocks[product_id].is_active

\* The same check with the comparison off by one.
InsufficientStock_OffByOne(available, quantity) == available + 1 < quantity

\* if product.quantity_available < item.quantity: raise InsufficientStockError
InsufficientStock(available, quantity) == available < quantity

\* A decrement that takes one unit more than the line asks for.
Decrement_OneMore(sess, p, quantity) ==
    [in_session |-> sess.in_session \cup {p},
     qty |-> [sess.qty EXCEPT ![p] = Available(sess, p) - quantity - 1]]

\* product.quantity_available -= item.quantity, in the session
Decrement(sess, p, quantity) ==
    [in_session |-> sess.in_session \cup {p},
     qty |-> [sess.qty EXCEPT ![p] = Available(sess, p) - quantity]]

\* A restore that loads the product but leaves its quantity as it was.
Restore_Nothing(sess, p, quantity) ==
    [in_session |-> sess.in_session \cup {p},
     qty |-> [sess.qty EXCEPT ![p] = Available(sess, p)]]

\* product.quantity_available += detail.quantity, in the session
Restore(sess, p, quantity) ==
    [in_session |-> sess.in_session \cup {p},
     qty |-> [sess.qty EXCEPT ![p] = Available(sess, p) + quantity]]

\* Commit of session.begin(): the unit of work writes the loaded value of
\* every product the session changed (UPDATE ... SET quantity_available = v).
Flush(stocks, sess) ==
    [p \in Products |->
        IF p \in sess.in_session
        THEN [stocks[p] EXCEPT !.quantity_available = sess.qty[p]]
        ELSE stocks[p]]

\* An exception handler that commits what the session holds instead of
\* discarding it.
Rollback_Commits(stocks, sess) == Flush(stocks, sess)

\* Exit of session.begin() by an exception: nothing the session did is written.
Rollback(stocks, sess) == stocks

\* The order row and its order_details rows as the database stores them.
PersistOrder(user_id, details) ==
    LET t == calculate_totals(details, 0, 0, 0)
    IN [user_id |-> user_id,
        status |-> CONFIRMED,
        payment_status |-> "PENDING",
        details |-> [i \in 1..Len(details) |->
                        [details[i] EXCEPT !.unit_price = Numeric_12_2(@)]],
        subtotal |-> Numeric_12_2(t.subtotal),
        tax_amount |-> 0,
        shipping_cost |-> 0,
        discount_amount |-> 0,
        total_amount |-> Numeric_12_2(t.total_amount)]

Quantities(stocks) == [p \in Products |-> stocks[p].quantity_available]

\* stock_antes: quantity_available of every product as create_order found it,
\* i.e. before the decrements of the session.
StockAntes(stocks, sess, details) ==
    [p \in Products |->
        IF p \in sess.in_session
        THEN sess.qty[p] + SumSeq([i \in 1..Len(details) |->
                                    IF details[i].product_id = p THEN details[i].quantity ELSE 0])
        ELSE stocks[p].quantity_available]

NoCreate == [order |-> NoOrder, before |-> [p \in Products |-> 0], details |-> <<>>]

\* OrderDetail(product_id=product.id, product_name=..., product_sku=...,
\* quantity=item.quantity, unit_price=product.final_price)
OrderDetail(p, product, quantity) ==
    [product_id |-> p, product_name |-> product.product_name,
     product_sku |-> product.product_sku, quantity |-> quantity,
     unit_price |-> final_price(product), discount_amount |-> 0]

(* --------------------- OrderService.create_order ----------------------- *)

\* An item of order_data.details (OrderDetailCreate: quantity >= 1).
Items == [product_id : ProductIds, quantity : 1..MaxQty]

\* The request enters create_order and opens its session (details has at
\* least one item).
CreateOrderBegin(t) ==
    /\ FreeRequest(t)
    /\ calls < MaxCalls
    /\ calls' = calls + 1
    /\ txn' = [txn EXCEPT ![t] = [IdleTxn EXCEPT !.pc = "select", !.idx = 1]]
    /\ result' = NoResult
    /\ last_create' = NoCreate
    /\ UNCHANGED <<product_stocks, init_stock, orders>>
    /\ UNCHANGED <<orch_vars, guion_vars, svc_vars>>

\* One iteration of "for item in order_data.details": the SELECT of the
\* product, the stock check, the decrement and the new OrderDetail. The item
\* is read from the input when the loop reaches it; last says whether it is
\* the final item of the input.
CreateOrderLine(t, item, last) ==
    LET tx == txn[t]
        p == item.product_id
    IN
    /\ tx.pc = "select"
    /\ tx.idx = MaxLines => last
    /\ IF ~SelectActiveProduct(p)
       THEN /\ product_stocks' = Rollback(product_stocks, tx.session)
            /\ txn' = [txn EXCEPT ![t] = IdleTxn]
            /\ result' = Failure("create", "ProductNotFoundError", NoOrder, tx.idx, p)
       ELSE IF InsufficientStock(Available(tx.session, p), item.quantity)
       THEN /\ product_stocks' = Rollback(product_stocks, tx.session)
            /\ txn' = [txn EXCEPT ![t] = IdleTxn]
            /\ result' = Failure("create", "InsufficientStockError", NoOrder, tx.idx, p)
       ELSE /\ txn' = [txn EXCEPT ![t] =
                    [tx EXCEPT !.session = Decrement(tx.session, p, item.quantity),
                               !.details = Append(@, OrderDetail(p, product_stocks[p],
                                                                 item.quantity)),
                               !.idx = @ + 1,
                               !.pc = IF last THEN "flush" ELSE "select"]]
            /\ result' = NoResult
            /\ UNCHANGED product_stocks
    /\ UNCHANGED <<init_stock, orders, last_create, calls>>
    /\ UNCHANGED <<orch_vars, guion_vars, svc_vars>>

\* session.add(order), flush, refresh and the commit at the end of
\* session.begin(): the stock updates and the order become visible.
CreateOrderCommit(t) ==
    LET tx == txn[t] IN
    /\ tx.pc = "flush"
    /\ product_stocks' = Flush(product_stocks, tx.session)
    /\ orders' = Append(orders, PersistOrder(CurrentUser, tx.details))
    /\ txn' = [txn EXCEPT ![t] = IdleTxn]
    /\ result' = Success("create", Len(orders) + 1)
    /\ last_create' = [order |-> Len(orders) + 1,
                       before |-> StockAntes(product_stocks, tx.session, tx.details),
                       details |-> tx.details]
    /\ UNCHANGED <<init_stock, calls>>
    /\ UNCHANGED <<orch_vars, guion_vars, svc_vars>>

\* Timeout, OperationalError, SQLAlchemyError or any other exception at a
\* statement of the transaction: rollback, OrderServiceError is raised.
CreateOrderStorageError(t) ==
    LET tx == txn[t] IN
    /\ tx.pc \in {"select", "flush"}
    /\ product_stocks' = Rollback(product_stocks, tx.session)
    /\ txn' = [txn EXCEPT ![t] = IdleTxn]
    /\ result' = Failure("create", "OrderServiceError", NoOrder, tx.idx, "none")
    /\ UNCHANGED <<init_stock, orders, last_create, calls>>
    /\ UNCHANGED <<orch_vars, guion_vars, svc_vars>>

(* --------------------- OrderService.cancel_order ----------------------- *)

\* A guard that forgets the CANCELLED status.
NotCancellable_DeliveredOnly(status) == status \in {DELIVERED}

\* if order.status in [DELIVERED, CANCELLED]: return False, "No se puede cancelar ..."
NotCancellable(status) == status \in {DELIVERED, CANCELLED}

\* session.get(Order, order_id) with its details, and the two early returns.
CancelOrderBegin(t, order_id) ==
    /\ FreeRequest(t)
    /\ IF order_id > Len(orders)
       THEN /\ result' = Failure("cancel", PedidoNoEncontrado, order_id, 0, "none")
            /\ UNCHANGED <<txn, calls>>
       ELSE IF NotCancellable(orders[order_id].status)
       THEN /\ result' = Failure("cancel", NoSePuedeCancelar, order_id, 0, "none")
            /\ UNCHANGED <<txn, calls>>
       ELSE /\ calls < MaxCalls
            /\ calls' = calls + 1
            /\ txn' = [txn EXCEPT ![t] = [IdleTxn EXCEPT !.pc = "restore",
                                                        !.order_id = order_id,
                                                        !.details = orders[order_id].details,
                                                        !.idx = 1]]
            /\ result' = NoResult
    /\ last_create' = IF last_create.order = order_id THEN last_create ELSE NoCreate
    /\ UNCHANGED <<product_stocks, init_stock, orders>>
    /\ UNCHANGED <<orch_vars, guion_vars, svc_vars>>

\* One iteration of "for detail in order.details": session.get(ProductStock)
\* and the restore of the line's quantity.
CancelOrderLine(t) ==
    LET tx == txn[t]
        detail == tx.details[tx.idx]
    IN
    /\ tx.pc = "restore"
    /\ txn' = [txn EXCEPT ![t] =
            [tx EXCEPT !.session = IF detail.product_id \in Products
                                   THEN Restore(tx.session, detail.product_id, detail.quantity)
                                   ELSE @,
                       !.idx = @ + 1,
                       !.pc = IF tx.idx = Len(tx.details) THEN "cancel_commit" ELSE "restore"]]
    /\ result' = NoResult
    /\ UNCHANGED <<product_stocks, init_stock, orders, last_create, calls>>
    /\ UNCHANGED <<orch_vars, guion_vars, svc_vars>>

\* order.status = CANCELLED, payment_status = "REFUNDED" and the commit at
\* the end of session.begin().
CancelOrderCommit(t) ==
    LET tx == txn[t] IN
    /\ tx.pc = "cancel_commit"
    /\ product_stocks' = Flush(product_stocks, tx.session)
    /\ orders' = [orders EXCEPT ![tx.order_id] =
                    [@ EXCEPT !.status = CANCELLED, !.payment_status = "REFUNDED"]]
    /\ txn' = [txn EXCEPT ![t] = IdleTxn]
    /\ result' = Success("cancel", tx.order_id)
    /\ UNCHANGED <<init_stock, last_create, calls>>
    /\ UNCHANGED <<orch_vars, guion_vars, svc_vars>>

\* Any exception inside cancel_order: rollback, (False, "Error cancelando el pedido").
CancelOrderStorageError(t) ==
    LET tx == txn[t] IN
    /\ tx.pc \in {"restore", "cancel_commit"}
    /\ product_stocks' = Rollback(product_stocks, tx.session)
    /\ txn' = [txn EXCEPT ![t] = IdleTxn]
    /\ result' = Failure("cancel", ErrorCancelando, tx.order_id, 0, "none")
    /\ UNCHANGED <<init_stock, orders, last_create, calls>>
    /\ UNCHANGED <<orch_vars, guion_vars, svc_vars>>

(* ------------------------- OrderController ----------------------------- *)

\* OrderController.change_status, committed by its caller.
ChangeStatus(order_id, new_status) ==
    /\ order_id <= Len(orders)
    /\ can_transition_to(orders[order_id].status, new_status)
    /\ orders' = [orders EXCEPT ![order_id] = [@ EXCEPT !.status = new_status]]
    /\ result' = NoResult
    /\ UNCHANGED <<product_stocks, init_stock, txn, last_create, calls>>
    /\ UNCHANGED <<orch_vars, guion_vars, svc_vars>>

\* OrderController.process_payment: payment_status and the change to PAID are
\* flushed, then _reserve_stock raises AttributeError on
\* product.available_quantity (ProductStock has no such attribute) for the
\* first line; the caller that owns the session either commits what was
\* flushed or rolls it back.
ProcessPayment(order_id, committed) ==
    /\ order_id <= Len(orders)
    /\ orders[order_id].status = CONFIRMED
    /\ can_transition_to(orders[order_id].status, PAID)
    /\ orders' = IF committed
                 THEN [orders EXCEPT ![order_id] =
                         [@ EXCEPT !.status = PAID, !.payment_status = "COMPLETED"]]
                 ELSE orders
    /\ result' = NoResult
    /\ UNCHANGED <<product_stocks, init_stock, txn, last_create, calls>>
    /\ UNCHANGED <<orch_vars, guion_vars, svc_vars>>

(* ----------------------------- orders: Init ---------------------------- *)

\* Price columns of the catalogue rows (unit_cost is Numeric(12, 2)).
PriceList ==
    [p \in Products |->
        CASE p = "p1" -> [unit_cost |-> 1005 * Cent, is_on_sale |-> TRUE,
                          discount_percent |-> 50, discount_amount |-> 0]
          [] p = "p2" -> [unit_cost |-> 2010 * Cent, is_on_sale |-> TRUE,
                          discount_percent |-> 25, discount_amount |-> 0]
          [] OTHER    -> [unit_cost |-> 3000 * Cent, is_on_sale |-> FALSE,
                          discount_percent |-> 0, discount_amount |-> 0]]

ProductRow(p, quantity, is_active) ==
    [quantity_available |-> quantity,
     is_active |-> is_active,
     product_name |-> <<"name", p>>,
     product_sku |-> <<"sku", p>>,
     unit_cost |-> PriceList[p].unit_cost,
     is_on_sale |-> PriceList[p].is_on_sale,
     discount_percent |-> PriceList[p].discount_percent,
     discount_amount |-> PriceList[p].discount_amount]

InitOrders ==
    /\ \E q \in [Products -> 0..MaxStock] :
          /\ \A p \in InactiveProducts : q[p] = MaxStock
          /\ product_stocks = [p \in Products |-> ProductRow(p, q[p], p \in ActiveProducts)]
          /\ init_stock = q
    /\ orders = <<>>
    /\ txn = [t \in Requests |-> IdleTxn]
    /\ result = NoResult
    /\ last_create = NoCreate
    /\ calls = 0

\* No service call is in progress.
Quiescent == \A t \in Requests : txn[t].pc = "idle"

\* Callers that await each operation before the next one starts.
SerialCreateOrderBegin(t) == Quiescent /\ CreateOrderBegin(t)
SerialCancelOrderBegin(t, order_id) == Quiescent /\ CancelOrderBegin(t, order_id)
SerialChangeStatus(order_id, new_status) == Quiescent /\ ChangeStatus(order_id, new_status)
SerialProcessPayment(order_id, committed) == Quiescent /\ ProcessPayment(order_id, committed)

NextStep ==
    \E t \in Requests :
        \/ \E item \in Items, last \in BOOLEAN : CreateOrderLine(t, item, last)
        \/ CreateOrderCommit(t)
        \/ CreateOrderStorageError(t)
        \/ CancelOrderLine(t)
        \/ CancelOrderCommit(t)
        \/ CancelOrderStorageError(t)

NextOrders ==
    \/ \E t \in Requests : CreateOrderBegin(t)
    \/ \E t \in Requests, o \in OrderIds : CancelOrderBegin(t, o)
    \/ NextStep

NextLifecycle ==
    \/ \E t \in Requests : SerialCreateOrderBegin(t)
    \/ \E t \in Requests, o \in OrderIds : SerialCancelOrderBegin(t, o)
    \/ NextStep
    \/ \E o \in OrderIds, s \in OrderStatus : SerialChangeStatus(o, s)
    \/ \E o \in OrderIds, c \in BOOLEAN : SerialProcessPayment(o, c)

(* -------------------------------- text -------------------------------- *)

\* A str is the sequence of its characters, so that "in", lower(), strip(),
\* upper(), slicing and re.search work on it as they do in the program.
UpperCase ==
    <<"A", "B", "C", "D", "E", "F", "G", "H", "I", "J", "K", "L", "M", "N", "O", "P", "Q", "R", "S", "T", "U", "V", "W", "X", "Y", "Z", "Á", "É", "Í", "Ó", "Ú", "Ñ">>

LowerCase ==
    <<"a", "b", "c", "d", "e", "f", "g", "h", "i", "j", "k", "l", "m", "n", "o", "p", "q", "r", "s", "t", "u", "v", "w", "x", "y", "z", "á", "é", "í", "ó", "ú", "ñ">>

Digits == {"0", "1", "2", "3", "4", "5", "6", "7", "8", "9"}

Whitespace == {" ", "\t", "\n"}

\* str.lower()
lower(text) ==
    [i \in 1..Len(text) |->
        IF \E k \in 1..Len(UpperCase) : UpperCase[k] = text[i]
        THEN LowerCase[CHOOSE k \in 1..Len(UpperCase) : UpperCase[k] = text[i]]
        ELSE text[i]]

\* str.upper()
upper(text) ==
    [i \in 1..Len(text) |->
        IF \E k \in 1..Len(LowerCase) : LowerCase[k] = text[i]
        THEN UpperCase[CHOOSE k \in 1..Len(LowerCase) : LowerCase[k] = text[i]]
        ELSE text[i]]

\* str.strip()
RECURSIVE lstrip(_)
lstrip(text) ==
    IF text # <<>> /\ Head(text) \in Whitespace THEN lstrip(Tail(text)) ELSE text

RECURSIVE rstrip(_)
rstrip(text) ==
    IF text # <<>> /\ text[Len(text)] \in Whitespace
    THEN rstrip(SubSeq(text, 1, Len(text) - 1))
    ELSE text

strip(text) == rstrip(lstrip(text))

\* word in text (substring test of str)
Contains(text, word) ==
    \E i \in 0..(Len(text) - Len(word)) : SubSeq(text, i + 1, i + Len(word)) = word

\* any(word in text for word in words)
ContainsAny(text, words) == \E k \in 1..Len(words) : Contains(text, words[k])

\* \w of re: letters, digits and the underscore
IsWordChar(c) ==
    \/ c \in Digits
    \/ c = "_"
    \/ \E i \in 1..Len(LowerCase) : c = LowerCase[i] \/ c = UpperCase[i]

\* \b of re at the gap before position i (1..Len+1) of text
WordBoundary(text, i) ==
    LET before == i > 1 /\ IsWordChar(text[i - 1])
        after == i <= Len(text) /\ IsWordChar(text[i])
    IN before # after

(* --------------------- the texts of the exchanges ---------------------- *)

\* palabras_aprobacion
palabras_aprobacion ==
    << <<"s", "i">>,
       <<"s", "í">>,
       <<"y", "e", "s">>,
       <<"o", "k">>,
       <<"d", "a", "l", "e">>,
       <<"v", "a">>,
       <<"c", "l", "a", "r", "o">>,
       <<"p", "e", "r", "f", "e", "c", "t", "o">>,
       <<"b", "u", "e", "n", "o">> >>

\* palabras_rechazo
palabras_rechazo ==
    << <<"n", "o">>,
       <<"n", "o", "p">>,
       <<"n", "o", "p", "e">>,
       <<"n", "a", "h">>,
       <<"o", "t", "r", "a">>,
       <<"d", "i", "f", "e", "r", "e", "n", "t", "e">>,
       <<"s", "i", "g", "u", "i", "e", "n", "t", "e">> >>

\* respuesta_usuario: an approval, as typed
RespuestaSi ==
    <<"S", "í">>

\* respuesta_usuario: a rejection
RespuestaNo ==
    <<"n", "o">>

\* respuesta_usuario: a rejection with the word 'siguiente' of palabras_rechazo
RespuestaSiguiente ==
    <<"s", "i", "g", "u", "i", "e", "n", "t", "e">>

\* respuesta_usuario: size and address
RespuestaEnvioLoja ==
    <<"t", "a", "l", "l", "a", " ", "4", "2", " ", "A", "v", " ", "L", "o", "j", "a", " ", "4", "5", "6">>

\* respuesta_usuario: size and address, in a street whose name has the letters 'no'
RespuestaEnvioSolano ==
    <<"t", "a", "l", "l", "a", " ", "4", "2", " ", "A", "v", " ", "S", "o", "l", "a", "n", "o">>

\* respuesta_usuario: a question about the product: no size, no address
RespuestaPregunta ==
    <<"d", "e", " ", "q", "u", "e", " ", "m", "a", "t", "e", "r", "i", "a", "l">>

\* str(order.id) of a new order: gen_random_uuid()
OrderUuidA ==
    <<"3", "f", "a", "8", "5", "f", "6", "4", "-", "5", "7", "1", "7", "-", "4", "5", "6", "2", "-", "b", "3", "f", "c", "-", "2", "c", "9", "6", "3", "f", "6", "6", "a", "f", "a", "6">>

OrderUuidB ==
    <<"0", "0", "c", "0", "f", "f", "e", "e", "-", "1", "d", "2", "e", "-", "4", "a", "3", "b", "-", "8", "c", "4", "d", "-", "5", "e", "6", "f", "7", "0", "8", "1", "9", "2", "a", "3">>

SinEspecificar ==
    <<"S", "i", "n", " ", "e", "s", "p", "e", "c", "i", "f", "i", "c", "a", "r">>

OrdPrefix ==
    <<"O", "R", "D", "-">>

\* stop_patterns
stop_patterns ==
    << <<"m", "e", "j", "o", "r", " ", "n", "o">>,
       <<"m", "e", "j", "o", "r", " ", "n", "o", " ", "g", "r", "a", "c", "i", "a", "s">>,
       <<"l", "u", "e", "g", "o", " ", "v", "e", "o">>,
       <<"d", "e", "s", "p", "u", "é", "s", " ", "v", "e", "o">>,
       <<"c", "h", "a", "o">>,
       <<"a", "d", "i", "ó", "s">>,
       <<"a", "d", "i", "o", "s">>,
       <<"n", "o", "s", " ", "v", "e", "m", "o", "s">>,
       <<"h", "a", "s", "t", "a", " ", "l", "u", "e", "g", "o">>,
       <<"b", "y", "e">>,
       <<"g", "r", "a", "c", "i", "a", "s", " ", "i", "g", "u", "a", "l">>,
       <<"g", "r", "a", "c", "i", "a", "s", " ", "i", "g", "u", "a", "l", "m", "e", "n", "t", "e">>,
       <<"y", "a", " ", "n", "o">>,
       <<"n", "o", " ", "i", "m", "p", "o", "r", "t", "a">>,
       <<"d", "é", "j", "a", "l", "o">>,
       <<"d", "e", "j", "a", "l", "o">>,
       <<"o", "l", "v", "í", "d", "a", "l", "o">>,
       <<"o", "l", "v", "i", "d", "a", "l", "o">>,
       <<"n", "o", " ", "g", "r", "a", "c", "i", "a", "s">>,
       <<"e", "s", "t", "á", " ", "m", "u", "y", " ", "c", "a", "r", "o", " ", "g", "r", "a", "c", "i", "a", "s">>,
       <<"e", "s", "t", "a", " ", "m", "u", "y", " ", "c", "a", "r", "o", " ", "g", "r", "a", "c", "i", "a", "s">>,
       <<"m", "u", "y", " ", "c", "a", "r", "o", " ", "g", "r", "a", "c", "i", "a", "s">> >>

\* query: a farewell, as typed
QueryChao ==
    <<" ", "C", "h", "a", "o", ",", " ", "g", "r", "a", "c", "i", "a", "s", " ">>

\* query: no stop phrase
QueryComprar ==
    <<"q", "u", "i", "e", "r", "o", " ", "c", "o", "m", "p", "r", "a", "r">>

\* query: a stop phrase inside a longer sentence
QueryNoGracias ==
    <<"m", "m", "m", " ", "n", "o", " ", "g", "r", "a", "c", "i", "a", "s">>

(* ------------------ AgentOrchestrator.process_query -------------------- *)

max_transfers == 3

\* self.agents
Agents == {"retriever", "sales"}
\* values an agent or the classifier can name as the next agent
AgentNames == Agents \cup {"checkout"}
None == "None"
Unbound == "unbound"

Intents == {"search", "persuasion", "checkout", "info"}
Styles == {"cuencano", "juvenil", "formal", "neutral"}
CheckoutStages == {"confirm", "address", "payment", "complete"}

intent_to_agent ==
    [i \in Intents |->
        CASE i = "search" -> "retriever"
          [] i = "persuasion" -> "sales"
          [] i = "checkout" -> "checkout"
          [] i = "info" -> "retriever"]

NoResponse ==
    [agent_name |-> None, should_transfer |-> FALSE, transfer_to |-> None,
     error |-> "none", stop_intent |-> FALSE, message |-> None]

Raises == "raises"

\* agent.process raised instead of returning a response.
AgentRaised ==
    [agent_name |-> Raises, should_transfer |-> FALSE, transfer_to |-> None,
     error |-> Raises, stop_intent |-> FALSE, message |-> None]

\* What agent.process can do: return a response (a transfer request or not)
\* or raise.
AgentOutcomes ==
    {[agent_name |-> "agent", should_transfer |-> FALSE, transfer_to |-> None,
      error |-> "none", stop_intent |-> FALSE, message |-> "agent_message"]}
    \cup
    {[agent_name |-> "agent", should_transfer |-> TRUE, transfer_to |-> to,
      error |-> "none", stop_intent |-> FALSE, message |-> "agent_message"] :
        to \in AgentNames \cup {None}}
    \cup {AgentRaised}

\* f"{current_agent_name}->{response.transfer_to}"
transfer_key(from, to) == <<from, to>>

\* transfer_history.count(transfer_key)
Count(history, key) == Cardinality({i \in 1..Len(history) : history[i] = key})

\* A loop check that lets an edge through once more.
LoopDetected_Late(history, key) == Count(history, key) >= 3

\* if transfer_history.count(transfer_key) >= 2: break
LoopDetected(history, key) == Count(history, key) >= 2

\* while response.should_transfer and transfer_count < max_transfers
LoopCondition(resp, count) == resp.should_transfer /\ count < max_transfers

\* The handler of "except Exception" around the whole body evaluates
\* self.self.logger: AttributeError, which leaves process_query.
EmergencyResponse == "raised"

\* AgentState(user_query=...): the fields a turn reads, with their defaults.
\* uploaded_image: Optional[bytes] = None
NoImage == [none |-> TRUE, bytes |-> <<>>]

AgentState(user_query) ==
    [checkout_stage |-> None, user_style |-> "neutral", detected_intent |-> None,
     user_query |-> user_query, uploaded_image |-> NoImage, timestamp |-> 0]

\* str(b"..."): what json.dumps(state_dict, default=str) writes for bytes
str_bytes(b) == <<"b", "'">> \o b \o <<"'">>

\* state.model_dump() and json.dumps(state_dict, default=str): the JSON object
\* Redis keeps. Texts and None go as they are, a datetime as its text, bytes as
\* the text of their repr.
json_dumps(session_state) ==
    [valid |-> TRUE,
     checkout_stage |-> session_state.checkout_stage,
     user_style |-> session_state.user_style,
     detected_intent |-> session_state.detected_intent,
     user_query |-> session_state.user_query,
     uploaded_image |-> IF session_state.uploaded_image.none THEN NoImage
                        ELSE [none |-> FALSE,
                              bytes |-> str_bytes(session_state.uploaded_image.bytes)],
     timestamp |-> [text |-> session_state.timestamp]]

\* json.loads(data) and AgentState(**state_dict): the text of a datetime is
\* parsed, the text of uploaded_image is encoded to bytes.
json_loads(data) ==
    [checkout_stage |-> data.checkout_stage,
     user_style |-> data.user_style,
     detected_intent |-> data.detected_intent,
     user_query |-> data.user_query,
     uploaded_image |-> data.uploaded_image,
     timestamp |-> data.timestamp.text]

\* settings.session_ttl
session_ttl == 1800

\* No key session:{session_id} in Redis.
NoSession == [ttl |-> 0, state |-> json_dumps(AgentState(<<>>))]

Queries == {QueryChao, QueryComprar, QueryNoGracias}

\* if pattern in query_lower
PatternIn_Equal(pattern, query_lower) == query_lower = pattern

PatternIn(pattern, query_lower) == Contains(query_lower, pattern)

farewell_messages ==
    [style \in Styles |->
        CASE style = "cuencano" -> "Entendido ve. Aquí estaré si cambias de opinión. ¡Buen día!"
          [] style = "juvenil" -> "Ok bro, acá estoy por si cambias de idea. ¡Saludos!"
          [] style = "formal" -> "Entendido. Quedo a su disposición. ¡Que tenga un buen día!"
          [] style = "neutral" -> "Entendido. Aquí estaré si cambias de opinión. ¡Buen día!"]

\* _detect_stop_intent: (stop_detected, farewell_message)
detect_stop_intent(user_query, user_style) ==
    LET query_lower == strip(lower(user_query))
        style == IF user_style = None THEN "neutral" ELSE user_style
    IN IF \E k \in 1..Len(stop_patterns) : PatternIn(stop_patterns[k], query_lower)
       THEN [stop_detected |-> TRUE,
             farewell_message |-> IF style \in DOMAIN farewell_messages
                                  THEN farewell_messages[style]
                                  ELSE farewell_messages["neutral"]]
       ELSE [stop_detected |-> FALSE, farewell_message |-> ""]

IdleOrchestrator ==
    /\ pc = "idle"
    /\ state = AgentState(<<>>)
    /\ current_agent_name = Unbound
    /\ response = NoResponse
    /\ transfer_count = 0
    /\ transfer_history = <<>>
    /\ outcome = "none"
    /\ failed = FALSE
    /\ invoked = <<>>

\* Lines 77-119: the state of the turn and the stop-intent short-circuit.
ProcessQueryBegin(checkout_stage, user_style, query) ==
    LET stop == detect_stop_intent(query, user_style) IN
    /\ pc = "idle"
    /\ state' = [AgentState(query) EXCEPT !.checkout_stage = checkout_stage,
                                          !.user_style = user_style]
    /\ IF stop.stop_detected
       THEN /\ response' = [agent_name |-> "orchestrator", should_transfer |-> FALSE,
                            transfer_to |-> None, error |-> "none", stop_intent |-> TRUE,
                            message |-> stop.farewell_message]
            /\ outcome' = "returned"
            /\ pc' = "done"
       ELSE /\ pc' = "style"
            /\ UNCHANGED <<response, outcome>>
    /\ invoked' = <<"_detect_stop_intent">>
    /\ UNCHANGED <<current_agent_name, transfer_count, transfer_history, failed,
                   session_store>>
    /\ UNCHANGED <<order_vars, guion_vars, svc_vars>>

\* Lines 121-143: style detection when the style is unset or neutral.
DetectStyle(detected) ==
    /\ pc = "style"
    /\ IF state.user_style \in {None, "neutral"}
       THEN /\ IF detected = Raises
               THEN /\ state' = [state EXCEPT !.user_style = "neutral"]
                    /\ failed' = TRUE
               ELSE /\ state' = [state EXCEPT !.user_style = detected]
                    /\ UNCHANGED failed
            /\ invoked' = Append(invoked, "_detect_user_style")
       ELSE UNCHANGED <<state, failed, invoked>>
    /\ pc' = "intent"
    /\ UNCHANGED <<current_agent_name, response, transfer_count, transfer_history, outcome,
                   session_store>>
    /\ UNCHANGED <<order_vars, guion_vars, svc_vars>>

\* Lines 145-181: intent classification when checkout_stage is None, then the
\* check that the chosen agent exists.
ClassifyIntent(classified) ==
    LET chosen == IF state.checkout_stage # None THEN Unbound
                  ELSE IF classified = Raises THEN "sales"
                  ELSE intent_to_agent[classified]
    IN
    /\ pc = "intent"
    /\ state' = IF state.checkout_stage # None THEN state
                ELSE IF classified = Raises
                THEN [state EXCEPT !.detected_intent = "persuasion"]
                ELSE [state EXCEPT !.detected_intent = classified]
    /\ IF chosen = Unbound
       THEN \* "if current_agent_name not in self.agents" reads an unassigned local
            /\ outcome' = EmergencyResponse
            /\ failed' = TRUE
            /\ pc' = "done"
            /\ UNCHANGED current_agent_name
       ELSE /\ current_agent_name' = IF chosen \notin Agents THEN "sales" ELSE chosen
            /\ failed' = (failed \/ (state.checkout_stage = None /\ classified = Raises))
            /\ pc' = "agent"
            /\ UNCHANGED outcome
    /\ invoked' = IF state.checkout_stage = None
                  THEN Append(invoked, "_classify_intent")
                  ELSE invoked
    /\ UNCHANGED <<response, transfer_count, transfer_history, session_store>>
    /\ UNCHANGED <<order_vars, guion_vars, svc_vars>>

\* The response built when agent.process raises (lines 200-218).
FallbackResponse(agent) ==
    [agent_name |-> agent, should_transfer |-> FALSE, transfer_to |-> None,
     error |-> "agent_execution_failed", stop_intent |-> FALSE,
     message |-> "error_message"]

\* Lines 183-223: the selected agent processes the state.
RunAgent(returned) ==
    /\ pc = "agent"
    /\ IF returned = AgentRaised
       THEN /\ response' = FallbackResponse(current_agent_name)
            /\ failed' = TRUE
       ELSE /\ response' = [returned EXCEPT !.agent_name = current_agent_name]
            /\ UNCHANGED failed
    /\ transfer_count' = 0
    /\ transfer_history' = <<>>
    /\ pc' = "loop"
    /\ invoked' = Append(invoked, current_agent_name)
    /\ UNCHANGED <<state, current_agent_name, outcome, session_store>>
    /\ UNCHANGED <<order_vars, guion_vars, svc_vars>>

\* Lines 225-306: one evaluation of the while condition and, if it holds, one
\* iteration of the transfer loop; when the loop is left the response is
\* returned.
TransferStep(returned) ==
    LET key == transfer_key(current_agent_name, response.transfer_to) IN
    /\ pc = "loop"
    /\ IF ~LoopCondition(response, transfer_count)
       THEN /\ outcome' = "returned"
            /\ pc' = "done"
            /\ UNCHANGED <<current_agent_name, response, transfer_count, transfer_history,
                           failed, invoked>>
       ELSE /\ transfer_count' = transfer_count + 1
            /\ IF LoopDetected(transfer_history, key)
               THEN /\ outcome' = "returned"
                    /\ pc' = "done"
                    /\ UNCHANGED <<current_agent_name, response, transfer_history, failed,
                                   invoked>>
               ELSE /\ transfer_history' = Append(transfer_history, key)
                    /\ IF response.transfer_to \notin Agents
                       THEN /\ outcome' = "returned"
                            /\ pc' = "done"
                            /\ UNCHANGED <<current_agent_name, response, failed, invoked>>
                       ELSE /\ current_agent_name' = response.transfer_to
                            /\ invoked' = Append(invoked, response.transfer_to)
                            /\ IF returned = AgentRaised
                               THEN /\ failed' = TRUE
                                    /\ outcome' = "returned"
                                    /\ pc' = "done"
                                    /\ UNCHANGED response
                               ELSE /\ response' = [returned EXCEPT !.agent_name = response.transfer_to]
                                    /\ UNCHANGED <<pc, outcome, failed>>
    /\ UNCHANGED <<state, session_store>>
    /\ UNCHANGED <<order_vars, guion_vars, svc_vars>>

\* The locals of the turn are gone.
TurnOver ==
    /\ pc' = "idle"
    /\ state' = AgentState(<<>>)
    /\ current_agent_name' = Unbound
    /\ response' = NoResponse
    /\ transfer_count' = 0
    /\ transfer_history' = <<>>
    /\ outcome' = "none"
    /\ failed' = FALSE
    /\ invoked' = <<>>

\* The caller has the result; the next turn can start.
ProcessQueryEnd ==
    /\ pc = "done"
    /\ TurnOver
    /\ UNCHANGED session_store
    /\ UNCHANGED <<order_vars, guion_vars, svc_vars>>

NextOrchestrator ==
    \/ \E stage \in CheckoutStages \cup {None}, style \in Styles \cup {None},
          query \in Queries :
          ProcessQueryBegin(stage, style, query)
    \/ \E detected \in Styles \cup {Raises} : DetectStyle(detected)
    \/ \E classified \in Intents \cup {Raises} : ClassifyIntent(classified)
    \/ \E returned \in AgentOutcomes : RunAgent(returned)
    \/ \E returned \in AgentOutcomes : TransferStep(returned)
    \/ ProcessQueryEnd

(* ------------------- SearchService.semantic_search --------------------- *)

\* SessionService.save_session whose setex leaves the TTL of an existing key
\* as it was.
save_session_KeepTTL(store, session_state, ttl) ==
    [ttl |-> IF store.ttl > 0 THEN store.ttl ELSE IF ttl # 0 THEN ttl ELSE session_ttl,
     state |-> json_dumps(session_state)]

\* SessionService.save_session whose setex gives the key half the TTL asked for.
save_session_HalfTTL(store, session_state, ttl) ==
    [ttl |-> (IF ttl # 0 THEN ttl ELSE session_ttl) \div 2, state |-> json_dumps(session_state)]

\* SessionService.save_session when Redis takes the setex:
\* ttl_seconds = ttl or self.session_ttl; setex(key, ttl_seconds, data).
\* A ttl of 0 stands for None: "or" takes both for absent.
save_session(store, session_state, ttl) ==
    [ttl |-> IF ttl # 0 THEN ttl ELSE session_ttl, state |-> json_dumps(session_state)]

\* SessionService.get_session: the AgentState read from the key and the TTL
\* the key has left; a TTL of 0 and a fresh state stand for the None returned
\* when the key is absent, has expired or holds no JSON.
get_session(store) ==
    IF store.ttl > 0 /\ store.state.valid
    THEN [ttl |-> store.ttl, state |-> json_loads(store.state)]
    ELSE [ttl |-> 0, state |-> AgentState(<<>>)]

\* Step 1 of a turn: the Session is loaded or created, the utterance is put
\* in it and the orchestrator starts.
SemanticSearchBegin(query) ==
    LET session == get_session(session_store).state IN
    ProcessQueryBegin(session.checkout_stage, session.user_style, query)

\* Step 8 of a turn: process_query has returned, the final Session is saved.
\* When Redis refuses the setex, save_session's first handler names
\* json.JSONEncodeError, which json does not have: the call raises.
SemanticSearchSave(redis_ok) ==
    /\ pc = "done"
    /\ outcome = "returned"
    /\ IF redis_ok
       THEN /\ session_store' = save_session(session_store, state, 0)
            /\ pc' = "saved"
            /\ invoked' = Append(invoked, "save_session")
            /\ UNCHANGED outcome
       ELSE /\ outcome' = "raised"
            /\ invoked' = Append(invoked, "save_session_raised")
            /\ UNCHANGED <<session_store, pc>>
    /\ UNCHANGED <<state, current_agent_name, response, transfer_count, transfer_history, failed>>
    /\ UNCHANGED <<order_vars, guion_vars, svc_vars>>

\* The response goes back to the caller, or the exception does.
SemanticSearchReturn ==
    /\ pc = "saved" \/ (pc = "done" /\ outcome = "raised")
    /\ TurnOver
    /\ UNCHANGED session_store
    /\ UNCHANGED <<order_vars, guion_vars, svc_vars>>

\* Time passes: the key loses half a TTL, a key with none left is gone.
ExpireSession ==
    /\ session_store.ttl > 0
    /\ session_store' =
          IF session_store.ttl > session_ttl \div 2
          THEN [session_store EXCEPT !.ttl = @ - (session_ttl \div 2)]
          ELSE NoSession
    /\ UNCHANGED <<pc, state, current_agent_name, response, transfer_count,
                   transfer_history, outcome, failed, invoked>>
    /\ UNCHANGED <<order_vars, guion_vars, svc_vars>>

NextSearchService ==
    \/ \E query \in Queries : SemanticSearchBegin(query)
    \/ \E detected \in Styles \cup {Raises} : DetectStyle(detected)
    \/ \E classified \in Intents \cup {Raises} : ClassifyIntent(classified)
    \/ \E returned \in AgentOutcomes : RunAgent(returned)
    \/ \E returned \in AgentOutcomes : TransferStep(returned)
    \/ \E redis_ok \in BOOLEAN : SemanticSearchSave(redis_ok)
    \/ SemanticSearchReturn
    \/ ExpireSession


(* ------------- procesar_guion_agente2 / continuar_conversacion --------- *)

\* session_id of a guion: the Redis key is f"guion_session:{session_id}"
SessionIds == {"s1", "s2"}

\* setex(session_key, 1800, json.dumps(session_data))
guion_session_ttl == 1800

\* recommendation_score values _calculate_product_score can give two products
Scores == {40, 60}

\* The value under a key of Redis: session_data and the seconds the key has
\* left; a key that was never set or has expired has ttl 0.
NoSessionData ==
    [ttl |-> 0, mejor_opcion_id |-> None, productos |-> <<>>, current_index |-> 0,
     estilo_comunicacion |-> "neutral", approved |-> FALSE, order_created |-> FALSE,
     order_id |-> <<>>, order_number |-> <<>>]

\* if not session_json
SessionFound(session_data) == session_data.ttl > 0

\* The OrderCreate the continuation hands to create_order; NoOrderData when
\* create_order was not called.
NoOrderData == [product_id |-> None, quantity |-> 0, shipping_address |-> <<>>, notes |-> <<>>]

\* What a mutation returned: the response's fields, the branch that built
\* its message, the exception create_order raised, the order's index in the
\* orders table and the order_data given to create_order; session_id and
\* respuesta_usuario are the arguments of the call.
NoGuionResponse ==
    [op |-> "none", session_id |-> "none", respuesta_usuario |-> <<>>,
     success |-> FALSE, mensaje |-> "none", siguiente_paso |-> "none",
     mejor_opcion_id |-> None, productos |-> <<>>,
     order |-> NoOrder, order_id |-> <<>>, order_number |-> <<>>,
     order_total |-> 0, order_status |-> "none",
     raised |-> "none", order_data |-> NoOrderData,
     mensaje_texto |-> <<>>]

\* RecomendacionResponse(...)
RecomendacionResponse(session_id, success, mensaje, productos, mejor_opcion_id, siguiente_paso) ==
    [NoGuionResponse EXCEPT !.op = "procesar_guion_agente2", !.session_id = session_id,
                            !.success = success, !.mensaje = mensaje,
                            !.mensaje_texto = <<mensaje>>,
                            !.productos = productos, !.mejor_opcion_id = mejor_opcion_id,
                            !.siguiente_paso = siguiente_paso]

\* ContinuarConversacionResponse(...) of a branch that created no order
ContinuarConversacionResponse(session_id, respuesta_usuario, success, mensaje, mejor_opcion_id, siguiente_paso, raised) ==
    [NoGuionResponse EXCEPT !.op = "continuar_conversacion", !.session_id = session_id,
                            !.respuesta_usuario = respuesta_usuario,
                            !.success = success, !.mensaje = mensaje,
                            !.mensaje_texto = <<mensaje>>,
                            !.mejor_opcion_id = mejor_opcion_id,
                            !.siguiente_paso = siguiente_paso, !.raised = raised]

\* respuesta_lower = respuesta_usuario.lower().strip()
respuesta_lower(respuesta_usuario) == strip(lower(respuesta_usuario))

\* A test whose word list lacks the accented spelling of "si".
es_aprobacion_SinTilde(respuesta_usuario) ==
    ContainsAny(respuesta_lower(respuesta_usuario),
                SubSeq(palabras_aprobacion, 1, 1) \o SubSeq(palabras_aprobacion, 3, Len(palabras_aprobacion)))

\* es_aprobacion = any(palabra in respuesta_lower for palabra in palabras_aprobacion)
es_aprobacion(respuesta_usuario) ==
    ContainsAny(respuesta_lower(respuesta_usuario), palabras_aprobacion)

\* es_rechazo = any(palabra in respuesta_lower for palabra in palabras_rechazo)
es_rechazo(respuesta_usuario) ==
    ContainsAny(respuesta_lower(respuesta_usuario), palabras_rechazo)

\* The alternatives 3[5-9] | 4[0-9] | 50 of the size pattern
IsTalla(d1, d2) ==
    \/ d1 = "3" /\ d2 \in {"5", "6", "7", "8", "9"}
    \/ d1 = "4" /\ d2 \in Digits
    \/ d1 = "5" /\ d2 = "0"

\* The positions at which r'\b(3[5-9]|4[0-9]|50)\b' matches
TallaMatches(text) ==
    {i \in 1..(Len(text) - 1) :
        /\ WordBoundary(text, i)
        /\ IsTalla(text[i], text[i + 1])
        /\ WordBoundary(text, i + 2)}

\* talla = talla_match.group(1) if talla_match else "Sin especificar"
talla(respuesta_texto) ==
    IF TallaMatches(respuesta_texto) = {}
    THEN SinEspecificar
    ELSE LET i == CHOOSE j \in TallaMatches(respuesta_texto) :
                      \A k \in TallaMatches(respuesta_texto) : j <= k
         IN SubSeq(respuesta_texto, i, i + 1)

\* order_number = f"ORD-{str(order.id)[:8].upper()}"
order_number(order_id) == OrdPrefix \o upper(SubSeq(order_id, 1, 8))

\* One step of the stable descending sort: x goes after every product whose
\* score is at least its own.
InsertByScore(sorted, x) ==
    LET n == Cardinality({i \in 1..Len(sorted) : sorted[i].total_score >= x.total_score})
    IN SubSeq(sorted, 1, n) \o <<x>> \o SubSeq(sorted, n + 1, Len(sorted))

\* scored_products.sort(key=lambda x: x.total_score, reverse=True)
RECURSIVE SortByScore(_)
SortByScore(scored) ==
    IF scored = <<>> THEN <<>>
    ELSE InsertByScore(SortByScore(SubSeq(scored, 1, Len(scored) - 1)), scored[Len(scored)])

\* ProductService.get_products_by_barcodes: the active products among the
\* barcodes of the guion
get_products_by_barcodes(barcodes) ==
    {p \in Products : product_stocks[p].is_active /\ \E i \in 1..Len(barcodes) : barcodes[i] = p}

\* compare_and_recommend: the products of the guion found in the catalogue,
\* each with its score, best first.
RECURSIVE scored_products(_, _)
scored_products(productos, products) ==
    IF productos = <<>> THEN <<>>
    ELSE LET rest == scored_products(Tail(productos), products)
             pg == Head(productos)
         IN IF pg.codigo_barras \in products
            THEN <<[id |-> pg.codigo_barras, total_score |-> pg.total_score]>> \o rest
            ELSE rest

compare_and_recommend(productos, products) == SortByScore(scored_products(productos, products))

\* A best option taken from the end of the ranking.
best_option_id_Last(scored) == scored[Len(scored)].id

\* best = scored_products[0]; best_option_id=best.product.id
best_option_id(scored) == scored[1].id

\* session_data['productos']: the projection of a ranked product
ProductoEnSesion(id) ==
    [id |-> id,
     final_price |-> final_price(product_stocks[id]),
     discount_percent |-> product_stocks[id].discount_percent]

\* session_data as procesar_guion_agente2 builds it
NewSessionData(ranked, estilo) ==
    [NoSessionData EXCEPT !.ttl = guion_session_ttl,
                          !.mejor_opcion_id = best_option_id(ranked),
                          !.productos = [i \in 1..Len(ranked) |-> ProductoEnSesion(ranked[i].id)],
                          !.current_index = 0,
                          !.estilo_comunicacion = estilo]


\* chat_history_service.add_message twice inside one try: persisted is the
\* number of messages written before an exception, 2 when there was none.
AddMessages(history, persisted, session_id, tipo, siguiente_paso, order_id) ==
    history \o
    SubSeq(<<[session_id |-> session_id, user_id |-> CurrentUser, role |-> "USER",
              metadata |-> tipo, order_id |-> order_id],
             [session_id |-> session_id, user_id |-> CurrentUser, role |-> "AGENT",
              metadata |-> siguiente_paso, order_id |-> order_id]>>,
           1, persisted)


\* procesar_guion_agente2 (mutations.py 254-620). productos: the products of
\* the guion, each with the score _calculate_product_score gives it; redis_ok:
\* whether Redis takes the setex; persisted: the messages chat history takes.
ProcesarGuionAgente2(authenticated, session_id, productos, estilo, necesita_recomendacion, intencion_principal, redis_ok, persisted) ==
    LET products == get_products_by_barcodes([i \in 1..Len(productos) |-> productos[i].codigo_barras])
        ranked == compare_and_recommend(productos, products)
        siguiente_paso ==
            IF necesita_recomendacion /\ Cardinality(products) > 1 THEN "confirmar_compra"
            ELSE IF intencion_principal = "informacion" THEN "mas_info"
            ELSE "confirmar_compra"
    IN
    /\ guion_calls < MaxGuionCalls
    /\ guion_calls' = guion_calls + 1
    /\ IF ~authenticated
       THEN /\ guion_response' = RecomendacionResponse(session_id, FALSE, "login", <<>>, None, "login")
            /\ UNCHANGED <<guion_sessions, chat_history>>
       ELSE IF products = {}
       THEN /\ guion_response' = RecomendacionResponse(session_id, FALSE, "no_encontrados", <<>>,
                                                       None, "ver_alternativas")
            /\ UNCHANGED <<guion_sessions, chat_history>>
       ELSE /\ guion_sessions' =
                  IF redis_ok
                  THEN [guion_sessions EXCEPT ![session_id] = NewSessionData(ranked, estilo)]
                  ELSE guion_sessions
            /\ chat_history' = AddMessages(chat_history, persisted, session_id,
                                           "guion_inicial", siguiente_paso, <<>>)
            /\ guion_response' =
                  RecomendacionResponse(session_id, TRUE, "recomendacion",
                                        [i \in 1..Len(ranked) |-> ranked[i].id],
                                        best_option_id(ranked), siguiente_paso)
    /\ UNCHANGED in_flight
    /\ UNCHANGED <<order_vars, orch_vars, svc_vars>>

\* str(e) of the exception create_order raised (order_service.py 150-152,
\* 167-171, 299-318): the text given to its constructor.
str_exception(failure) ==
    CASE failure.error = "ProductNotFoundError" ->
            <<"Producto no encontrado: ", failure.product>>
      [] failure.error = "InsufficientStockError" ->
            <<"Stock insuficiente para ">> \o product_stocks[failure.product].product_name
      [] failure.error = "OrderServiceError" ->
            <<"No se pudo crear el pedido. Contacta a soporte.">>
      [] OTHER -> <<>>

\* mensaje of "except InsufficientStockError" (mutations.py 1049-1055):
\* f"Lo siento, no hay stock suficiente para este producto. ...{str(e)}"
mensaje_sin_stock(failure) == <<"sin_stock">> \o str_exception(failure)

\* mensaje of "except OrderServiceError" (mutations.py 1065-1071):
\* f"Hubo un problema al crear tu orden: {str(e)}"
mensaje_problema_al_crear(failure) == <<"problema_al_crear">> \o str_exception(failure)

\* mensaje of "except ProductNotFoundError" (mutations.py 1057-1063), a
\* fixed text
mensaje_producto_no_encontrado(failure) == <<"producto_no_encontrado">>

\* A handler of InsufficientStockError that asks to try again.
siguiente_paso_sin_stock_Reintentar == "reintentar"

\* siguiente_paso of "except InsufficientStockError" (mutations.py 1049-1055)
siguiente_paso_sin_stock == "nueva_conversacion"

\* The shipping branch of continuar_conversacion (mutations.py 900-1079):
\* the product is read, create_order runs as one transaction for one unit of
\* it, the session and the chat history are written.
CrearOrdenDelGuion(session_id, respuesta_usuario, session_data, redis_set_ok, order_uuid, storage_ok, persisted) ==
    LET mejor_opcion_id == session_data.mejor_opcion_id
        respuesta_texto == strip(respuesta_usuario)
        order_data == [product_id |-> mejor_opcion_id, quantity |-> 1,
                       shipping_address |-> respuesta_texto,
                       notes |-> talla(respuesta_texto)]
        detail == OrderDetail(mejor_opcion_id, product_stocks[mejor_opcion_id], 1)
        session == Decrement(EmptySession, mejor_opcion_id, 1)
        order == PersistOrder(CurrentUser, <<detail>>)
        failure(raised) == Failure("create", raised, NoOrder, 1, mejor_opcion_id)
        Refused(mensaje, siguiente_paso, raised) ==
            /\ guion_response' =
                  [ContinuarConversacionResponse(session_id, respuesta_usuario, FALSE, mensaje,
                                                 None, siguiente_paso, raised)
                      EXCEPT !.order_data = IF raised = "none" THEN NoOrderData ELSE order_data,
                             !.mensaje_texto =
                                CASE raised = "InsufficientStockError" ->
                                        mensaje_sin_stock(failure(raised))
                                  [] raised = "OrderServiceError" ->
                                        mensaje_problema_al_crear(failure(raised))
                                  [] raised = "ProductNotFoundError" ->
                                        mensaje_producto_no_encontrado(failure(raised))
                                  [] OTHER -> <<mensaje>>]
            /\ result' = IF raised = "none" THEN result
                         ELSE Failure("create", raised, NoOrder, 1, mejor_opcion_id)
            /\ last_create' = IF raised = "none" THEN last_create ELSE NoCreate
            /\ product_stocks' = IF raised = "none" THEN product_stocks
                                 ELSE Rollback(product_stocks, session)
            /\ UNCHANGED <<orders, guion_sessions, chat_history>>
    IN
    IF mejor_opcion_id = None
    THEN Refused("producto_no_seleccionado", "nueva_conversacion", "none")
    ELSE IF mejor_opcion_id \notin Products
    THEN Refused("producto_no_encontrado", "nueva_conversacion", "none")
    ELSE IF ~SelectActiveProduct(mejor_opcion_id)
    THEN Refused("producto_no_encontrado", "nueva_conversacion", "ProductNotFoundError")
    ELSE IF InsufficientStock(Available(EmptySession, mejor_opcion_id), 1)
    THEN Refused("sin_stock", siguiente_paso_sin_stock, "InsufficientStockError")
    ELSE IF ~storage_ok
    THEN Refused("problema_al_crear", "reintentar", "OrderServiceError")
    ELSE /\ product_stocks' = Flush(product_stocks, session)
         /\ orders' = Append(orders, order)
         /\ result' = Success("create", Len(orders) + 1)
         /\ last_create' = [order |-> Len(orders) + 1,
                            before |-> StockAntes(product_stocks, session, <<detail>>),
                            details |-> <<detail>>]
         /\ IF ~redis_set_ok
            THEN \* setex raises after the commit: "except Exception" answers
                 /\ guion_response' =
                       [ContinuarConversacionResponse(session_id, respuesta_usuario, FALSE,
                                                      "problema_al_procesar", None,
                                                      "reintentar", "Exception")
                           EXCEPT !.order_data = order_data]
                 /\ UNCHANGED <<guion_sessions, chat_history>>
            ELSE /\ guion_sessions' =
                       [guion_sessions EXCEPT ![session_id] =
                           [session_data EXCEPT !.ttl = guion_session_ttl,
                                                !.order_created = TRUE,
                                                !.order_id = order_uuid,
                                                !.order_number = order_number(order_uuid)]]
                 /\ chat_history' = AddMessages(chat_history, persisted, session_id,
                                                "datos_envio", "orden_completada", order_uuid)
                 /\ guion_response' =
                       [ContinuarConversacionResponse(session_id, respuesta_usuario, TRUE,
                                                      "orden_creada", mejor_opcion_id,
                                                      "orden_completada", "none")
                           EXCEPT !.order = Len(orders) + 1,
                                  !.order_id = order_uuid,
                                  !.order_number = order_number(order_uuid),
                                  !.order_total = order.total_amount,
                                  !.order_status = order.status,
                                  !.order_data = order_data]

\* continuar_conversacion (mutations.py 626-1088). redis_get_ok, redis_set_ok:
\* whether Redis answers the get and takes the setex; order_uuid: the id the
\* database gives a new order; storage_ok: whether the transaction of
\* create_order goes through; persisted: the messages chat history takes.
\* The requests of continuar_conversacion the server runs at the same time:
\* the resolver is a coroutine, every await of it lets another request run.
GuionRequests == {"g1", "g2"}

\* A request that is not inside continuar_conversacion.
NoContinuacion ==
    [pc |-> "idle", session_id |-> None, respuesta_usuario |-> <<>>, session_data |-> NoSessionData]

\* A rejection that offers the product it was given once more.
siguiente_producto_de_Mismo(session_data) ==
    session_data.productos[session_data.current_index + 1]

\* A rejection that goes back to the head of the list.
siguiente_index_Reinicia(session_data) == 0

\* producto_actual_index + 1, the position stored as current_index
siguiente_index(session_data) == session_data.current_index + 1

\* siguiente_producto = productos[producto_actual_index + 1]
siguiente_producto_de(session_data) ==
    session_data.productos[siguiente_index(session_data) + 1]

\* continuar_conversacion from the reply on, with the session it read
ResponderConSesion(session_id, respuesta_usuario, session_data, redis_set_ok, order_uuid, storage_ok, persisted) ==
    LET Answer(success, mensaje, mejor_opcion_id, siguiente_paso) ==
            guion_response' = ContinuarConversacionResponse(session_id, respuesta_usuario, success,
                                                            mensaje, mejor_opcion_id,
                                                            siguiente_paso, "none")
        \* "except Exception" around the whole body
        Problema ==
            /\ guion_response' = ContinuarConversacionResponse(session_id, respuesta_usuario, FALSE,
                                                               "problema", None, "reintentar",
                                                               "Exception")
            /\ UNCHANGED <<guion_sessions, chat_history>>
    IN
    IF es_aprobacion(respuesta_usuario)
    THEN /\ IF ~redis_set_ok
            THEN Problema
            ELSE /\ guion_sessions' =
                       [guion_sessions EXCEPT ![session_id] =
                           [session_data EXCEPT !.approved = TRUE, !.ttl = guion_session_ttl]]
                 /\ chat_history' = AddMessages(chat_history, persisted, session_id,
                                                "aprobacion", "solicitar_datos_envio", <<>>)
                 /\ Answer(TRUE, "solicitar_talla_y_direccion", session_data.mejor_opcion_id,
                           "solicitar_datos_envio")
         /\ UNCHANGED <<product_stocks, orders, result, last_create>>
    ELSE IF es_rechazo(respuesta_usuario)
    THEN /\ IF session_data.current_index + 1 < Len(session_data.productos)
            THEN LET siguiente_producto == siguiente_producto_de(session_data) IN
                 IF ~redis_set_ok
                 THEN Problema
                 ELSE /\ guion_sessions' =
                            [guion_sessions EXCEPT ![session_id] =
                                [session_data EXCEPT !.current_index = siguiente_index(session_data),
                                                     !.mejor_opcion_id = siguiente_producto.id,
                                                     !.ttl = guion_session_ttl]]
                      /\ chat_history' = AddMessages(chat_history, persisted, session_id,
                                                     "rechazo", "confirmar_compra", <<>>)
                      /\ Answer(TRUE, "alternativa", siguiente_producto.id, "confirmar_compra")
            ELSE /\ chat_history' = AddMessages(chat_history, persisted, session_id,
                                                "rechazo", "nueva_conversacion", <<>>)
                 /\ Answer(TRUE, "sin_alternativas", None, "nueva_conversacion")
                 /\ UNCHANGED guion_sessions
         /\ UNCHANGED <<product_stocks, orders, result, last_create>>
    ELSE CrearOrdenDelGuion(session_id, respuesta_usuario, session_data, redis_set_ok,
                            order_uuid, storage_ok, persisted)

ContinuarConversacion(authenticated, session_id, respuesta_usuario, redis_get_ok, redis_set_ok, order_uuid, storage_ok, persisted) ==
    LET session_data == guion_sessions[session_id]
        Answer(success, mensaje, mejor_opcion_id, siguiente_paso) ==
            guion_response' = ContinuarConversacionResponse(session_id, respuesta_usuario, success,
                                                            mensaje, mejor_opcion_id,
                                                            siguiente_paso, "none")
        \* "except Exception" around the whole body
        Problema ==
            /\ guion_response' = ContinuarConversacionResponse(session_id, respuesta_usuario, FALSE,
                                                               "problema", None, "reintentar",
                                                               "Exception")
            /\ UNCHANGED <<guion_sessions, chat_history>>
    IN
    /\ guion_calls < MaxGuionCalls
    /\ guion_calls' = guion_calls + 1
    /\ IF ~authenticated
       THEN /\ Answer(FALSE, "login", None, "login")
            /\ UNCHANGED <<guion_sessions, chat_history, product_stocks, orders, result, last_create>>
       ELSE IF ~redis_get_ok
       THEN /\ Problema
            /\ UNCHANGED <<product_stocks, orders, result, last_create>>
       ELSE IF ~SessionFound(session_data)
       THEN /\ Answer(FALSE, "sesion_expirada", None, "nueva_conversacion")
            /\ UNCHANGED <<guion_sessions, chat_history, product_stocks, orders, result, last_create>>
       ELSE ResponderConSesion(session_id, respuesta_usuario, session_data, redis_set_ok,
                               order_uuid, storage_ok, persisted)
    /\ UNCHANGED <<init_stock, txn, calls>>
    /\ UNCHANGED in_flight
    /\ UNCHANGED <<orch_vars, svc_vars>>

\* continuar_conversacion up to the await of redis.get: the request holds the
\* session it read.
ContinuarConversacionGet(t, authenticated, session_id, respuesta_usuario, redis_get_ok) ==
    LET session_data == guion_sessions[session_id]
        Answer(success, mensaje, siguiente_paso, raised) ==
            guion_response' = ContinuarConversacionResponse(session_id, respuesta_usuario, success,
                                                            mensaje, None, siguiente_paso, raised)
    IN
    /\ in_flight[t].pc = "idle"
    /\ guion_calls < MaxGuionCalls
    /\ guion_calls' = guion_calls + 1
    /\ IF ~authenticated
       THEN Answer(FALSE, "login", "login", "none") /\ UNCHANGED in_flight
       ELSE IF ~redis_get_ok
       THEN Answer(FALSE, "problema", "reintentar", "Exception") /\ UNCHANGED in_flight
       ELSE IF ~SessionFound(session_data)
       THEN Answer(FALSE, "sesion_expirada", "nueva_conversacion", "none") /\ UNCHANGED in_flight
       ELSE /\ in_flight' = [in_flight EXCEPT ![t] =
                                 [pc |-> "got", session_id |-> session_id,
                                  respuesta_usuario |-> respuesta_usuario,
                                  session_data |-> session_data]]
            /\ UNCHANGED guion_response
    /\ UNCHANGED <<guion_sessions, chat_history>>
    /\ UNCHANGED <<order_vars, orch_vars, svc_vars>>

\* continuar_conversacion after the await of redis.get: the reply is handled
\* with the session the request read, whatever the key holds by now.
ContinuarConversacionRespond(t, redis_set_ok, order_uuid, storage_ok, persisted) ==
    /\ in_flight[t].pc = "got"
    /\ ResponderConSesion(in_flight[t].session_id, in_flight[t].respuesta_usuario,
                          in_flight[t].session_data, redis_set_ok, order_uuid, storage_ok,
                          persisted)
    /\ in_flight' = [in_flight EXCEPT ![t] = NoContinuacion]
    /\ UNCHANGED <<guion_calls, init_stock, txn, calls>>
    /\ UNCHANGED <<orch_vars, svc_vars>>

\* Time passes: the keys of Redis lose half a TTL, a key with none left is gone.
ExpireSessions ==
    /\ \E s \in SessionIds : guion_sessions[s].ttl > 0
    /\ guion_sessions' =
          [s \in SessionIds |->
              IF guion_sessions[s].ttl > guion_session_ttl \div 2
              THEN [guion_sessions[s] EXCEPT !.ttl = @ - (guion_session_ttl \div 2)]
              ELSE NoSessionData]
    /\ UNCHANGED <<guion_response, chat_history, guion_calls, in_flight>>
    /\ UNCHANGED <<order_vars, orch_vars, svc_vars>>

InitGuion ==
    /\ guion_sessions = [s \in SessionIds |-> NoSessionData]
    /\ guion_response = NoGuionResponse
    /\ chat_history = <<>>
    /\ guion_calls = 0
    /\ in_flight = [t \in GuionRequests |-> NoContinuacion]

\* The products of a guion: one to MaxGuionProductos different barcodes, each
\* with the score the comparison gives its product.
GuionProductos ==
    {productos \in UNION {[1..n -> [codigo_barras : Products, total_score : Scores]] :
                              n \in 1..MaxGuionProductos} :
        \A i, j \in 1..Len(productos) :
            productos[i].codigo_barras = productos[j].codigo_barras => i = j}

\* The replies of the user the model tries.
Respuestas ==
    {RespuestaSi, RespuestaNo, RespuestaSiguiente, RespuestaEnvioLoja,
     RespuestaEnvioSolano, RespuestaPregunta}

\* chat history takes both messages of a turn or raises at the first.
Persisted == {0, 2}

\* The calls of the two mutations: without a user nothing of the request is
\* read; with one, the guion carries one of two styles and intentions.
NextGuion ==
    \/ \E session_id \in SessionIds :
          ProcesarGuionAgente2(FALSE, session_id, <<[codigo_barras |-> "p1", total_score |-> 40]>>,
                               "neutral", FALSE, "compra_directa", TRUE, 0)
    \/ \E session_id \in SessionIds, productos \in GuionProductos,
          estilo \in {"neutral", "cuencano"}, necesita_recomendacion \in BOOLEAN,
          intencion_principal \in {"compra_directa", "informacion"}, redis_ok \in BOOLEAN,
          persisted \in Persisted :
          ProcesarGuionAgente2(TRUE, session_id, productos, estilo,
                               necesita_recomendacion, intencion_principal, redis_ok, persisted)
    \/ \E session_id \in SessionIds, respuesta_usuario \in Respuestas :
          ContinuarConversacion(FALSE, session_id, respuesta_usuario, TRUE, TRUE,
                                OrderUuidA, TRUE, 0)
    \/ \E session_id \in SessionIds, respuesta_usuario \in Respuestas,
          redis_get_ok \in BOOLEAN, redis_set_ok \in BOOLEAN,
          order_uuid \in {OrderUuidA, OrderUuidB},
          storage_ok \in BOOLEAN, persisted \in Persisted :
          ContinuarConversacion(TRUE, session_id, respuesta_usuario, redis_get_ok,
                                redis_set_ok, order_uuid, storage_ok, persisted)
    \/ ExpireSessions

\* Requests of continuar_conversacion that overlap.
NextGuionConcurrente ==
    \/ \E t \in GuionRequests, session_id \in SessionIds, respuesta_usuario \in Respuestas :
          ContinuarConversacionGet(t, FALSE, session_id, respuesta_usuario, TRUE)
    \/ \E t \in GuionRequests, session_id \in SessionIds, respuesta_usuario \in Respuestas,
          redis_get_ok \in BOOLEAN :
          ContinuarConversacionGet(t, TRUE, session_id, respuesta_usuario, redis_get_ok)
    \/ \E t \in GuionRequests, redis_set_ok \in BOOLEAN, order_uuid \in {OrderUuidA, OrderUuidB},
          storage_ok \in BOOLEAN, persisted \in Persisted :
          ContinuarConversacionRespond(t, redis_set_ok, order_uuid, storage_ok, persisted)
    \/ ExpireSessions

\* The state procesar_guion_agente2 leaves: session "s1" holds the ranking of
\* the two active products, the first of them recommended.
SesionProcesada ==
    /\ guion_sessions =
          [s \in SessionIds |->
              IF s = "s1" THEN NewSessionData(<<[id |-> "p1"], [id |-> "p2"]>>, "neutral")
              ELSE NoSessionData]
    /\ guion_response =
          RecomendacionResponse("s1", TRUE, "recomendacion", <<"p1", "p2">>, "p1",
                                "confirmar_compra")
    /\ chat_history = AddMessages(<<>>, 2, "s1", "guion_inicial", "confirmar_compra", <<>>)
    /\ in_flight = [t \in GuionRequests |-> NoContinuacion]

InitGuionConcurrente == SesionProcesada /\ guion_calls = 0

(* --------------------------- specifications ---------------------------- *)

\* No service was called yet.
NoCall == [op |-> None, n |-> 0]

InitServices == last_call = NoCall /\ last_result = NoCall

Init ==
    InitOrders /\ IdleOrchestrator /\ session_store = NoSession /\ InitGuion /\ InitServices

\* Concurrent requests calling OrderService.
Spec == Init /\ [][NextOrders]_vars

\* Service calls and the status operations of OrderController, one at a time.
SpecLifecycle == Init /\ [][NextLifecycle]_vars

\* Turns of the orchestrator.
SpecOrchestrator == Init /\ [][NextOrchestrator]_vars

\* A turn that has started keeps running: every await of process_query
\* returns or raises.
FairSpecOrchestrator == SpecOrchestrator /\ WF_vars(NextOrchestrator)

\* Turns of the conversation service around the orchestrator.
SpecSearchService == Init /\ [][NextSearchService]_vars

\* The two mutations of the guion flow, one call at a time.
SpecGuion == Init /\ [][NextGuion]_vars

\* continuar_conversacion with overlapping requests, after a guion was processed
InitConcurrente ==
    /\ InitOrders /\ IdleOrchestrator /\ session_store = NoSession /\ InitGuionConcurrente
    /\ InitServices

SpecGuionConcurrente == InitConcurrente /\ [][NextGuionConcurrente]_vars

(* ------------------------------ properties ----------------------------- *)

\* Units of product p in the lines of one stored order.
UnitsOf(order, p) ==
    SumSeq([i \in 1..Len(order.details) |->
                IF order.details[i].product_id = p THEN order.details[i].quantity ELSE 0])

\* Units of product p in the lines of the committed, non-cancelled orders.
CommittedUnits(p) ==
    SumSeq([o \in 1..Len(orders) |->
                IF orders[o].status # CANCELLED THEN UnitsOf(orders[o], p) ELSE 0])

\* C1: in every turn the transfer loop ends (a turn that is in the loop
\* reaches the end of process_query), transfer_count never exceeds 3, and no
\* from->to edge is recorded more than twice in the transfer history,
\* whatever the agents return.
C1_TransferLoopTerminates ==
    /\ [](transfer_count <= 3)
    /\ [](\A i \in 1..Len(transfer_history) :
              Count(transfer_history, transfer_history[i]) <= 2)
    /\ ((pc = "loop") ~> (pc = "done"))

\* C1 witness: a turn ended after three passes of the loop, the third one
\* stopped by an edge already recorded twice.
C1_Witness ==
    /\ pc = "done"
    /\ outcome = "returned"
    /\ transfer_count = 3
    /\ \E i \in 1..Len(transfer_history) :
           Count(transfer_history, transfer_history[i]) = 2

\* C2: process_query never raises: every finished turn returned an
\* AgentResponse, and when a stage of the turn failed the response's
\* metadata.error names the failure.
C2_NeverRaisesAndNamesFailure ==
    pc = "done" =>
        /\ outcome = "returned"
        /\ failed => response.error # "none"

\* C3: a step in which create_order ends in failure (missing or inactive
\* product, insufficient stock, storage error, at any line) discards the
\* session, changes no product's quantity_available and persists no order.
C3_CreateOrderAllOrNothing ==
    [][(result'.op = "create" /\ ~result'.ok) =>
          /\ Quantities(product_stocks') = Quantities(product_stocks)
          /\ orders' = orders
          /\ \A t \in Requests : txn'[t] # txn[t] => txn'[t] = IdleTxn]_vars

\* C3 witness: create_order raised InsufficientStockError at its second
\* line, after the first line had decremented a product in the session.
C3_Witness ==
    /\ result.op = "create"
    /\ result.error = "InsufficientStockError"
    /\ result.line = 2

\* C4: for a product that started with stock 1, create_order calls of
\* quantity 1, however they overlap, leave at most one order holding the
\* product (the other call fails with InsufficientStockError).
C4_ExactlyOneOrderForLastUnit ==
    \A p \in Products :
        (init_stock[p] = 1 /\ \A o \in 1..Len(orders) : orders[o].status # CANCELLED)
            => CommittedUnits(p) <= 1

\* C5: when no call is in progress, each product's quantity_available equals
\* its initial quantity minus the units of it in the lines of committed,
\* non-cancelled orders.
C5_StockMatchesCommittedOrders ==
    Quiescent =>
        \A p \in Products :
            product_stocks[p].quantity_available = init_stock[p] - CommittedUnits(p)

\* C6: quantity_available is never negative, neither in the table nor in the
\* session of a running call, and create_order takes a line (decrements and
\* adds the detail) only if the line requests no more than is available: a
\* line that requests more ends the call with InsufficientStockError.
C6_StockNeverNegative ==
    /\ [](\A p \in Products :
              /\ product_stocks[p].quantity_available >= 0
              /\ \A t \in Requests : Available(txn[t].session, p) >= 0)
    /\ [][\A t \in Requests :
              (txn[t].pc = "select" /\ Len(txn'[t].details) = Len(txn[t].details) + 1) =>
                  LET d == txn'[t].details[Len(txn'[t].details)] IN
                  /\ d.quantity <= Available(txn[t].session, d.product_id)
                  /\ txn'[t].session.qty[d.product_id] =
                         Available(txn[t].session, d.product_id) - d.quantity]_vars

\* C6 witness: a product that had stock is sold out in the table and
\* create_order has just refused a line for it with InsufficientStockError.
C6_Witness ==
    /\ result.op = "create"
    /\ result.error = "InsufficientStockError"
    /\ result.product \in Products
    /\ init_stock[result.product] > 0
    /\ product_stocks[result.product].quantity_available = 0

\* C7: when cancel_order commits the cancellation of the order the preceding
\* create_order committed, every product's quantity_available is back at the
\* value it had before that create_order.
C7_CancelRestoresStock ==
    [][\A t \in Requests :
          (/\ txn[t].pc = "cancel_commit"
           /\ last_create.order # NoOrder
           /\ txn[t].order_id = last_create.order
           /\ result'.op = "cancel"
           /\ result'.ok) =>
              Quantities(product_stocks') = last_create.before]_vars

\* C7 witness: an order that took units of a product was created and then
\* cancelled, and the stock is what it was before the order.
C7_Witness ==
    /\ result.op = "cancel"
    /\ result.ok
    /\ result.order = last_create.order
    /\ orders[result.order].status = CANCELLED
    /\ \E p \in Products : UnitsOf(orders[result.order], p) > 0
    /\ Quantities(product_stocks) = last_create.before

\* C8: a cancel_order call for an order whose status is DELIVERED or
\* CANCELLED (so every second cancel of an order) ends at once with the
\* failure "No se puede cancelar un pedido <status>" and changes neither the
\* orders nor any product's stock nor opens a restore; for any other status
\* of an existing order the cancellation starts.
C8_CancelOnlyIfCancellable ==
    [][\A t \in Requests, o \in OrderIds :
          (/\ FreeRequest(t)
           /\ o <= Len(orders)
           /\ \/ (txn' = txn /\ result'.op = "cancel" /\ result'.order = o)
              \/ (txn'[t].pc = "restore" /\ txn'[t].order_id = o)) =>
              IF orders[o].status \in {DELIVERED, CANCELLED}
              THEN /\ result' = Failure("cancel", NoSePuedeCancelar, o, 0, "none")
                   /\ orders' = orders
                   /\ product_stocks' = product_stocks
                   /\ txn' = txn
              ELSE /\ txn'[t].pc = "restore"
                   /\ result' = NoResult]_vars

\* C8 witness: the second cancel_order of an order that cancel_order had
\* cancelled has just been refused.
C8_Witness ==
    /\ result = Failure("cancel", NoSePuedeCancelar, result.order, 0, "none")
    /\ result.order \in 1..Len(orders)
    /\ orders[result.order].status = CANCELLED
    /\ orders[result.order].payment_status = "REFUNDED"

\* C9: every change of the status of a stored order, by any operation, is an
\* edge of the transition graph.
C9_StatusChangesFollowGraph ==
    [][\A o \in 1..Len(orders) :
          orders'[o].status # orders[o].status =>
              orders'[o].status \in valid_transitions[orders[o].status]]_vars

\* C10: for every committed order the sum over its lines of quantity x
\* unit_price equals its subtotal, and its total_amount equals
\* max(0, subtotal + tax_amount + shipping_cost - discount_amount).
C10_TotalsConsistent ==
    \A o \in 1..Len(orders) :
        LET O == orders[o] IN
        /\ SumSeq([i \in 1..Len(O.details) |->
                      O.details[i].quantity * O.details[i].unit_price]) = O.subtotal
        /\ O.total_amount =
               Max(0, O.subtotal + O.tax_amount + O.shipping_cost - O.discount_amount)

(* ------------------- properties of the guion flow ---------------------- *)

\* This step is a call of continuar_conversacion by a logged-in user that
\* found the session of its session_id.
ContinuacionAtendida ==
    /\ guion_calls' = guion_calls + 1
    /\ guion_response'.op = "continuar_conversacion"
    /\ guion_response'.mensaje \notin {"login", "problema", "sesion_expirada"}

\* A reply with no word of approval, no word of rejection and no size in it.
EsOtraRespuesta(respuesta_usuario) ==
    /\ ~es_aprobacion(respuesta_usuario)
    /\ ~es_rechazo(respuesta_usuario)
    /\ TallaMatches(strip(respuesta_usuario)) = {}

\* C11: a continuation whose reply is neither affirmative, nor negative, nor
\* shipping information (it names no size) creates no order and changes no
\* stock, and its answer does not announce an order.
C11_OtherReplyCreatesNoOrder ==
    [][(ContinuacionAtendida /\ EsOtraRespuesta(guion_response'.respuesta_usuario)) =>
          /\ orders' = orders
          /\ product_stocks' = product_stocks
          /\ guion_response'.siguiente_paso # "orden_completada"]_vars

\* C12: a continuation whose reply gives a size in 35..50 and an address,
\* and in which create_order does not fail, creates exactly one order of one
\* unit of the product the session offers, with the full text as address,
\* and answers with ORD- and the first 8 hex characters of the order id in
\* upper case, the order's total and status, and siguiente_paso
\* orden_completada.
C12_ShippingReplyCreatesOrder ==
    [][LET r == guion_response'
           offered == guion_sessions[r.session_id].mejor_opcion_id
       IN (/\ ContinuacionAtendida
           /\ r.respuesta_usuario \in {RespuestaEnvioLoja, RespuestaEnvioSolano}
           /\ TallaMatches(strip(r.respuesta_usuario)) # {}
           /\ r.raised = "none") =>
              /\ Len(orders') = Len(orders) + 1
              /\ LET o == orders'[Len(orders')] IN
                 /\ Len(o.details) = 1
                 /\ o.details[1].product_id = offered
                 /\ o.details[1].quantity = 1
                 /\ r.order_total = o.total_amount
                 /\ r.order_status = o.status
              /\ r.order_data.shipping_address = strip(r.respuesta_usuario)
              /\ Len(r.order_number) = 12
              /\ SubSeq(r.order_number, 1, 4) = <<"O", "R", "D", "-">>
              /\ \A i \in 5..12 :
                     r.order_number[i] \in Digits \cup {"A", "B", "C", "D", "E", "F"}
              /\ \A i \in 1..8 : lower(<<r.order_number[i + 4]>>) = lower(<<r.order_id[i]>>)
              /\ r.siguiente_paso = "orden_completada"]_vars

C14_AffirmativeReplyApproves ==
    [][LET r == guion_response'
           before == guion_sessions[r.session_id]
           after == guion_sessions'[r.session_id]
       IN (/\ ContinuacionAtendida
           /\ r.respuesta_usuario = RespuestaSi
           /\ r.raised = "none") =>
              /\ after = [before EXCEPT !.approved = TRUE, !.ttl = guion_session_ttl]
              /\ r.success
              /\ r.mensaje = "solicitar_talla_y_direccion"
              /\ r.siguiente_paso = "solicitar_datos_envio"
              /\ r.mejor_opcion_id = before.mejor_opcion_id
              /\ orders' = orders
              /\ product_stocks' = product_stocks]_vars

\* C14 witness: "Sí" was answered with the request for size and address,
\* the session is approved, and there is no order.
C14_Witness ==
    /\ guion_response.op = "continuar_conversacion"
    /\ guion_response.respuesta_usuario = RespuestaSi
    /\ guion_response.siguiente_paso = "solicitar_datos_envio"
    /\ guion_sessions[guion_response.session_id].approved
    /\ guion_sessions[guion_response.session_id].mejor_opcion_id = guion_response.mejor_opcion_id
    /\ orders = <<>>

\* C15: a continuation whose reply is negative, when Redis takes the update,
\* moves the pointer of the ranked list: if there is a next candidate,
\* current_index grows by one, mejor_opcion_id becomes that candidate and
\* siguiente_paso is confirmar_compra; otherwise the answer is "no more
\* alternatives" with siguiente_paso reintentar.
C15_NegativeReplyAdvances ==
    [][LET r == guion_response'
           before == guion_sessions[r.session_id]
           after == guion_sessions'[r.session_id]
       IN (/\ ContinuacionAtendida
           /\ r.respuesta_usuario \in {RespuestaNo, RespuestaSiguiente}
           /\ r.raised = "none") =>
              IF before.current_index + 1 < Len(before.productos)
              THEN /\ after.current_index = before.current_index + 1
                   /\ after.mejor_opcion_id = before.productos[before.current_index + 2].id
                   /\ r.mejor_opcion_id = after.mejor_opcion_id
                   /\ r.siguiente_paso = "confirmar_compra"
              ELSE /\ r.mensaje = "sin_alternativas"
                   /\ r.siguiente_paso = "reintentar"]_vars

\* C16: every call of procesar_guion_agente2 that returns a successful
\* recommendation leaves, under its session_id, a session with TTL 1800 s,
\* current_index 0, the ranked list of the response and its best option, so
\* that a continuation that follows at once finds it.
C16_SuccessfulGuionPersistsSession ==
    [][LET r == guion_response'
           stored == guion_sessions'[r.session_id]
       IN (/\ guion_calls' = guion_calls + 1
           /\ r.op = "procesar_guion_agente2"
           /\ r.success) =>
              /\ SessionFound(stored)
              /\ stored.ttl = guion_session_ttl
              /\ stored.current_index = 0
              /\ stored.estilo_comunicacion \in Styles
              /\ [i \in 1..Len(stored.productos) |-> stored.productos[i].id] = r.productos
              /\ stored.mejor_opcion_id = r.mejor_opcion_id]_vars

(* ------------------- properties of the orchestrator -------------------- *)

\* C17: a turn that starts with a non-null checkout_stage (and is not a stop
\* intent) ends with a response, without having classified the intent, and
\* is handled by the Checkout agent.
C17_CheckoutStageKeepsCheckoutAgent ==
    (pc = "done" /\ state.checkout_stage # None /\ ~response.stop_intent) =>
        /\ outcome = "returned"
        /\ \A i \in 1..Len(invoked) : invoked[i] # "_classify_intent"
        /\ \E i \in 1..Len(invoked) : invoked[i] = "checkout"
        /\ response.agent_name = "checkout"

\* C18: the agent that processes a turn is the one designated for the
\* classified intent: search -> retriever, persuasion -> sales, checkout ->
\* checkout, info -> retriever (the classifiers never give the fifth label
\* of AgentState.detected_intent, "recomendacion").
C18_IntentRoutedToDesignatedAgent ==
    (pc = "agent" /\ state.checkout_stage = None) =>
        current_agent_name =
            CASE state.detected_intent = "search" -> "retriever"
              [] state.detected_intent = "persuasion" -> "sales"
              [] state.detected_intent = "checkout" -> "checkout"
              [] state.detected_intent = "info" -> "retriever"
              [] OTHER -> "sales"

\* C19: the stop-intent detector is the first thing a turn runs; a turn
\* whose utterance, lowercased and trimmed, contains a stop phrase has
\* already ended with the farewell of the user's style (neutral when there
\* is none) from "orchestrator", with metadata.stop_intent true, and has
\* invoked nothing else: no style detection, no intent classification, no
\* agent.
C19_StopIntentShortCircuits ==
    pc # "idle" =>
        /\ Len(invoked) >= 1
        /\ invoked[1] = "_detect_stop_intent"
        /\ (\E k \in 1..Len(stop_patterns) :
                Contains(strip(lower(state.user_query)), stop_patterns[k])) =>
              /\ pc = "done"
              /\ outcome = "returned"
              /\ response.agent_name = "orchestrator"
              /\ response.stop_intent
              /\ response.message =
                     farewell_messages[IF state.user_style = None THEN "neutral"
                                       ELSE state.user_style]
              /\ invoked = <<"_detect_stop_intent">>
              /\ current_agent_name = Unbound
              /\ state.detected_intent = None

\* C19 witness: "mmm no gracias" from a user of style cuencano was answered
\* with the farewell and nothing but the detector ran.
C19_Witness ==
    /\ pc = "done"
    /\ state.user_query = QueryNoGracias
    /\ state.user_style = "cuencano"
    /\ response.stop_intent
    /\ response.message = farewell_messages["cuencano"]
    /\ invoked = <<"_detect_stop_intent">>

(* ---------------- properties of the conversation service --------------- *)

C21_EveryTurnAppendsUserThenAgent ==
    [][LET r == guion_response'
           n == Len(chat_history)
       IN (/\ guion_calls' = guion_calls + 1
           /\ \/ r.op = "procesar_guion_agente2" /\ r.success
              \/ ContinuacionAtendida) =>
              /\ Len(chat_history') = n + 2
              /\ SubSeq(chat_history', 1, n) = chat_history
              /\ chat_history'[n + 1].role = "USER"
              /\ chat_history'[n + 2].role = "AGENT"
              /\ chat_history'[n + 1].session_id = r.session_id
              /\ chat_history'[n + 2].session_id = r.session_id]_vars

\* C22: within one session the turns are serialized: a continuation that
\* handles its reply finds the session key as it read it (the TTL aside, which
\* time alone changes), so no other request of the session wrote or acted
\* between its read and its write.
C22_TurnsOfASessionAreSerialized ==
    [][\A t \in GuionRequests :
          (/\ in_flight[t].pc = "got"
           /\ in_flight'[t].pc = "idle"
           /\ SessionFound(guion_sessions[in_flight[t].session_id])) =>
              [guion_sessions[in_flight[t].session_id] EXCEPT !.ttl = 0] =
                  [in_flight[t].session_data EXCEPT !.ttl = 0]]_vars

(* ------------------- intent classification ----------------------------- *)

\* Palabras clave por intención
search_keywords ==
    << <<"b", "u", "s", "c", "a", "r">>,
       <<"b", "u", "s", "c", "o">>,
       <<"m", "o", "s", "t", "r", "a", "r">>,
       <<"m", "u", "é", "s", "t", "r", "a", "m", "e">>,
       <<"q", "u", "i", "e", "r", "o", " ", "v", "e", "r">>,
       <<"t", "i", "e", "n", "e", "s">>,
       <<"h", "a", "y">>,
       <<"t", "a", "l", "l", "a">>,
       <<"c", "o", "l", "o", "r">>,
       <<"m", "a", "r", "c", "a">>,
       <<"m", "o", "d", "e", "l", "o">>,
       <<"c", "a", "t", "á", "l", "o", "g", "o">> >>

\* checkout_keywords
checkout_keywords ==
    << <<"c", "o", "m", "p", "r", "a", "r">>,
       <<"c", "ó", "m", "p", "r", "a", "m", "e">>,
       <<"d", "á", "m", "e", "l", "o", "s">>,
       <<"d", "á", "m", "e", "l", "o">>,
       <<"e", "n", "v", "í", "a", "m", "e">>,
       <<"e", "n", "v", "í", "a">>,
       <<"q", "u", "i", "e", "r", "o">>,
       <<"l", "o", " ", "q", "u", "i", "e", "r", "o">>,
       <<"l", "o", "s", " ", "q", "u", "i", "e", "r", "o">>,
       <<"c", "o", "n", "f", "i", "r", "m", "a">>,
       <<"p", "r", "o", "c", "e", "d", "e">> >>

\* info_keywords
info_keywords ==
    << <<"h", "o", "r", "a", "r", "i", "o">>,
       <<"h", "o", "r", "a">>,
       <<"u", "b", "i", "c", "a", "c", "i", "ó", "n">>,
       <<"d", "i", "r", "e", "c", "c", "i", "ó", "n">>,
       <<"g", "a", "r", "a", "n", "t", "í", "a">>,
       <<"d", "e", "v", "o", "l", "u", "c", "i", "ó", "n">>,
       <<"e", "n", "v", "í", "o">>,
       <<"d", "e", "l", "i", "v", "e", "r", "y">>,
       <<"p", "a", "g", "o">>,
       <<"t", "a", "r", "j", "e", "t", "a">> >>

\* persuasion_keywords
persuasion_keywords ==
    << <<"c", "a", "r", "o">>,
       <<"p", "r", "e", "c", "i", "o">>,
       <<"b", "a", "r", "a", "t", "o">>,
       <<"d", "e", "s", "c", "u", "e", "n", "t", "o">>,
       <<"o", "f", "e", "r", "t", "a">>,
       <<"r", "e", "c", "o", "m", "i", "e", "n", "d", "a">>,
       <<"m", "e", "j", "o", "r">>,
       <<"d", "i", "f", "e", "r", "e", "n", "c", "i", "a">>,
       <<"v", "a", "l", "e", " ", "l", "a", " ", "p", "e", "n", "a">>,
       <<"d", "u", "d", "a">>,
       <<"p", "o", "r", " ", "q", "u", "é">> >>

\* sum(1 for kw in keywords if kw in query_lower)
KeywordScore(keywords, query_lower) ==
    Cardinality({k \in 1..Len(keywords) : Contains(query_lower, keywords[k])})

\* A confidence is written in 300ths, so that the thirds of the keyword path
\* are exact: 300 is 1.0, 240 is 0.8.
ConfidenceOne == 300

\* The field is absent from the reply of the LLM.
Missing == "missing"

\* IntentClassification(intent, confidence, suggested_agent)
IntentClassification(intent, confidence) ==
    [intent |-> intent, confidence |-> confidence, suggested_agent |-> intent_to_agent[intent]]

\* _classify_intent_keywords: the label with the most keywords in the
\* lowercased query, the first of search, checkout, info, persuasion on a tie.
classify_intent_keywords(user_query, has_search_results) ==
    LET query_lower == lower(user_query)
        search_score == KeywordScore(search_keywords, query_lower)
        checkout_score == KeywordScore(checkout_keywords, query_lower)
        info_score == KeywordScore(info_keywords, query_lower)
        persuasion_score == KeywordScore(persuasion_keywords, query_lower)
        best == IF search_score >= checkout_score /\ search_score >= info_score
                   /\ search_score >= persuasion_score
                THEN [intent |-> "search", score |-> search_score]
                ELSE IF checkout_score >= info_score /\ checkout_score >= persuasion_score
                THEN [intent |-> "checkout", score |-> checkout_score]
                ELSE IF info_score >= persuasion_score
                THEN [intent |-> "info", score |-> info_score]
                ELSE [intent |-> "persuasion", score |-> persuasion_score]
        \* if state.search_results: favour checkout, then persuasion
        favoured ==
            IF ~has_search_results THEN best
            ELSE IF checkout_score > 0
                    \/ ContainsAny(query_lower, << <<"s", "í">>, <<"s", "i">>, <<"o", "k">>,
                                                  <<"d", "a", "l", "e">>,
                                                  <<"b", "u", "e", "n", "o">> >>)
            THEN [intent |-> "checkout", score |-> 3]
            ELSE IF persuasion_score > 0 \/ best.score = 0
            THEN [intent |-> "persuasion", score |-> 2]
            ELSE best
        final == IF favoured.score = 0 THEN [intent |-> "persuasion", score |-> 1] ELSE favoured
        \* min(max_score / 3.0, 1.0)
        scaled == final.score * (ConfidenceOne \div 3)
    IN IntentClassification(final.intent, IF scaled < ConfidenceOne THEN scaled ELSE ConfidenceOne)

\* What the call of the LLM ends with: the 5 s timeout, a text that is no
\* JSON, another exception, or a JSON object whose fields hold what the LLM
\* chose to write.
\* The value of "confidence" in the reply: a number, a text float() refuses,
\* or nothing.
LlmConfidences ==
    [kind : {"number"}, value : {-60, 0, 240, 300, 450}]
    \cup {[kind |-> "text", value |-> 0], [kind |-> Missing, value |-> 0]}

LlmReplies ==
    [kind : {"timeout", "not_json", "error"}, intent : {Missing},
     confidence : {[kind |-> Missing, value |-> 0]}]
    \cup [kind : {"json"}, intent : Intents \cup {"recommendation", Missing},
          confidence : LlmConfidences]

\* _classify_intent_llm
classify_intent_llm(user_query, has_search_results, reply) ==
    IF reply.kind # "json"
    THEN \* except asyncio.TimeoutError / json.JSONDecodeError / Exception
         classify_intent_keywords(user_query, has_search_results)
    ELSE LET got == IF reply.intent = Missing THEN "persuasion" ELSE reply.intent
             intent == IF got \notin Intents THEN "persuasion" ELSE got
         IN IF reply.confidence.kind = "text"
            THEN \* float() raises ValueError: except Exception
                 classify_intent_keywords(user_query, has_search_results)
            ELSE \* float(result.get("confidence", 0.8))
                 IntentClassification(intent, IF reply.confidence.kind = Missing THEN 240
                                              ELSE reply.confidence.value)

\* The queries the classifier is tried with.
ClassifierQueries ==
    Queries \cup {<<"B", "u", "s", "c", "o", " ", "t", "a", "l", "l", "a", " ", "4", "2">>,
                  <<"h", "o", "l", "a">>,
                  <<"e", "s", " ", "c", "a", "r", "o", ",", " ", "d", "a", "l", "e">>,
                  <<"b", "u", "s", "c", "o", " ", "o", "f", "e", "r", "t", "a">>}

ClassifyIntentLlm(user_query, has_search_results, reply) ==
    /\ last_call' = [op |-> "_classify_intent_llm", user_query |-> user_query,
                     has_search_results |-> has_search_results, reply |-> reply]
    /\ last_result' = classify_intent_llm(user_query, has_search_results, reply)
    /\ UNCHANGED <<order_vars, orch_vars, guion_vars>>

ClassifyIntentKeywords(user_query, has_search_results) ==
    /\ last_call' = [op |-> "_classify_intent_keywords", user_query |-> user_query,
                     has_search_results |-> has_search_results, reply |-> None]
    /\ last_result' = classify_intent_keywords(user_query, has_search_results)
    /\ UNCHANGED <<order_vars, orch_vars, guion_vars>>

NextClassifier ==
    \/ \E user_query \in ClassifierQueries, has_search_results \in BOOLEAN, reply \in LlmReplies :
          ClassifyIntentLlm(user_query, has_search_results, reply)
    \/ \E user_query \in ClassifierQueries, has_search_results \in BOOLEAN :
          ClassifyIntentKeywords(user_query, has_search_results)

\* The classifier called over and over, with any query and any reply of the LLM
SpecClassifier == Init /\ [][NextClassifier]_vars

\* C23: the classification returned, by the LLM path or the keyword path,
\* carries a label of the closed intent set and a confidence between 0 and 1,
\* whatever the LLM replied.
C23_ClassificationInClosedSetAndUnitInterval ==
    last_call.op \in {"_classify_intent_llm", "_classify_intent_keywords"} =>
        /\ last_result.intent \in Intents
        /\ last_result.confidence >= 0
        /\ last_result.confidence <= ConfidenceOne

\* C24: when the call of the LLM times out, its text is no JSON, it raises, or
\* its label is outside the closed set, the classification returned is the one
\* the keyword path computes for the same query and session.
C24_LlmFailureFallsBackToKeywords ==
    (/\ last_call.op = "_classify_intent_llm"
     /\ \/ last_call.reply.kind \in {"timeout", "not_json", "error"}
        \/ last_call.reply.intent \notin Intents \cup {Missing}) =>
        last_result = classify_intent_keywords(last_call.user_query,
                                               last_call.has_search_results)

(* --------------------------- SessionService ---------------------------- *)

\* Calls of the SessionService tried, and the longest uploaded_image saved.
MaxServiceCalls == 3
MaxImageLen == 4

\* The AgentStates callers save: with and without an uploaded image, at two
\* instants, in two styles.
SessionStates ==
    {[AgentState(QueryComprar) EXCEPT !.uploaded_image = image, !.timestamp = timestamp,
                                      !.user_style = user_style] :
        image \in {NoImage, [none |-> FALSE, bytes |-> <<"a">>]},
        timestamp \in {0, 1}, user_style \in {"neutral", "juvenil"}}

\* The AgentState the caller holds from the get_session it has just made.
Loaded ==
    IF last_call.op = "get_session" /\ last_result.returned = "AgentState"
    THEN {last_result.state} ELSE {}

\* SessionService.save_session. fault: what goes wrong inside the try, nothing
\* ("none"), json.dumps raising ("serialization") or setex raising a
\* RedisError ("redis"). With a fault the first handler is looked up:
\* "except json.JSONEncodeError" names nothing json has, so AttributeError
\* leaves the method.
SaveSession(session_state, ttl, fault) ==
    /\ last_call.n < MaxServiceCalls
    /\ Len(session_state.uploaded_image.bytes) <= MaxImageLen
    /\ last_call' = [op |-> "save_session", n |-> last_call.n + 1, state |-> session_state,
                     ttl |-> ttl, fault |-> fault]
    /\ IF fault = "none"
       THEN /\ session_store' = save_session(session_store, session_state, ttl)
            /\ last_result' = [returned |-> "True", raised |-> None, state |-> session_state,
                               before |-> session_store]
       ELSE /\ last_result' = [returned |-> None, raised |-> "AttributeError",
                               state |-> session_state, before |-> session_store]
            /\ UNCHANGED session_store
    /\ UNCHANGED <<pc, state, current_agent_name, response, transfer_count,
                   transfer_history, outcome, failed, invoked>>
    /\ UNCHANGED <<order_vars, guion_vars>>

\* SessionService.get_session. fault: "redis" when redis.get raises; every
\* handler of the method returns None.
GetSession(fault) ==
    LET got == get_session(session_store)
        hit == fault = "none" /\ got.ttl > 0
    IN
    /\ last_call.n < MaxServiceCalls
    /\ last_call' = [op |-> "get_session", n |-> last_call.n + 1, state |-> AgentState(<<>>),
                     ttl |-> 0, fault |-> fault]
    /\ last_result' = [returned |-> IF hit THEN "AgentState" ELSE None, raised |-> None,
                       state |-> IF hit THEN got.state ELSE AgentState(<<>>),
                       before |-> session_store]
    /\ UNCHANGED orch_vars
    /\ UNCHANGED <<order_vars, guion_vars>>

\* Something else than the service writes the key: its payload is no JSON of
\* an AgentState any more.
CorruptPayload ==
    /\ session_store.ttl > 0
    /\ session_store.state.valid
    /\ session_store' = [session_store EXCEPT !.state.valid = FALSE]
    /\ UNCHANGED <<pc, state, current_agent_name, response, transfer_count,
                   transfer_history, outcome, failed, invoked>>
    /\ UNCHANGED <<order_vars, guion_vars, svc_vars>>

NextSessionService ==
    \/ \E session_state \in SessionStates \cup Loaded, ttl \in {0, 60},
          fault \in {"none", "serialization", "redis"} :
          SaveSession(session_state, ttl, fault)
    \/ \E fault \in {"none", "redis"} : GetSession(fault)
    \/ CorruptPayload
    \/ ExpireSession

\* The SessionService called by any caller, while time passes
SpecSessionService == Init /\ [][NextSessionService]_vars

\* A call of save_session has just returned True.
Saved ==
    /\ last_call'.n = last_call.n + 1
    /\ last_call'.op = "save_session"
    /\ last_result'.returned = "True"

ScriptSessionSaveResetsTTL ==
    [][\A s \in SessionIds :
          (guion_calls' = guion_calls + 1 /\ guion_sessions'[s] # guion_sessions[s]) =>
              guion_sessions'[s].ttl = guion_session_ttl]_vars

\* C26: saving back the AgentState that get_session reads from a stored
\* session leaves the stored session as it was, its timestamp aside.
C26_SaveOfGetIsIdentity ==
    [][(/\ Saved
        /\ get_session(session_store).ttl > 0
        /\ last_call'.state = get_session(session_store).state) =>
           [session_store'.state EXCEPT !.timestamp = [text |-> 0]] =
               [session_store.state EXCEPT !.timestamp = [text |-> 0]]]_vars

\* C27: get_session and save_session never raise: get_session answers None
\* when Redis fails or the payload is corrupt, save_session answers False
\* when Redis or the serialization fails.
C27_SessionStoreNeverRaises ==
    last_call.op \in {"get_session", "save_session"} =>
        /\ last_result.raised = None
        /\ (last_call.op = "get_session"
            /\ (last_call.fault # "none" \/ ~last_result.before.state.valid)) =>
               last_result.returned = None
        /\ (last_call.op = "save_session" /\ last_call.fault # "none") =>
               last_result.returned = "False"

\* C28: a create_order that succeeds takes from each product exactly the
\* units its lines ask for, stores the order as CONFIRMED with payment
\* PENDING, and returns lines that carry the name and the SKU of their
\* product and its final price, the discounted one when the product is on
\* sale, as unit price; the row of the line keeps that price at the two
\* decimals of its column. Calls are awaited one after the other.
C28_CreateOrderDecrementsAndSnapshots ==
    [][(result'.op = "create" /\ result'.ok /\ Len(orders') = Len(orders) + 1) =>
          LET order == orders'[Len(orders')]
              lines == last_create'.details
          IN /\ result'.order = Len(orders')
             /\ \A p \in Products :
                   product_stocks'[p].quantity_available =
                       product_stocks[p].quantity_available - UnitsOf(order, p)
             /\ order.status = CONFIRMED
             /\ order.payment_status = "PENDING"
             /\ Len(order.details) = Len(lines)
             /\ \A i \in 1..Len(lines) :
                   LET product == product_stocks[lines[i].product_id] IN
                   /\ lines[i].quantity >= 1
                   /\ order.details[i].quantity = lines[i].quantity
                   /\ order.details[i].product_id = lines[i].product_id
                   /\ lines[i].product_name = product.product_name
                   /\ lines[i].product_sku = product.product_sku
                   /\ lines[i].unit_price = final_price(product)
                   /\ (product.is_on_sale /\ product.discount_percent > 0) =>
                          lines[i].unit_price < product.unit_cost
                   /\ order.details[i].unit_price = Numeric_12_2(lines[i].unit_price)]_vars

\* C28 witness: an order of one unit of the discounted product "p1" was
\* created and took the product's last unit.
C28_Witness ==
    /\ result.op = "create"
    /\ result.ok
    /\ last_create.order = Len(orders)
    /\ Len(last_create.details) = 1
    /\ last_create.details[1].product_id = "p1"
    /\ last_create.details[1].unit_price < product_stocks["p1"].unit_cost
    /\ last_create.before["p1"] = 1
    /\ product_stocks["p1"].quantity_available = 0

\* C29: the best option compare_and_recommend names is the first product of
\* the ranked list it returns.
C29_BestIsFirstOfRanking ==
    (guion_response.op = "procesar_guion_agente2" /\ guion_response.success) =>
        /\ guion_response.productos # <<>>
        /\ guion_response.mejor_opcion_id = guion_response.productos[1]

\* C29 witness: two products were compared and ranked, the best of them is
\* the first and the session keeps it.
C29_Witness ==
    /\ guion_response.op = "procesar_guion_agente2"
    /\ guion_response.success
    /\ Len(guion_response.productos) = 2
    /\ guion_response.mejor_opcion_id = guion_response.productos[1]
    /\ guion_sessions[guion_response.session_id].mejor_opcion_id = guion_response.productos[1]

(* ------------------------- ChatHistoryService -------------------------- *)

\* Messages written and page sizes tried.
MaxMessages == 3
MaxLimit == 2


\* ChatHistoryService.add_message: the message of the caller is appended to
\* the session it names; a storage error raises ChatHistoryServiceError.
AddMessage(session_id, user_id, role, storage_ok) ==
    /\ Len(chat_history) < MaxMessages
    /\ last_call' = [op |-> "add_message", session_id |-> session_id, user_id |-> user_id,
                     limit |-> 0, offset |-> 0]
    /\ IF storage_ok
       THEN /\ chat_history' = Append(chat_history,
                                      [session_id |-> session_id, user_id |-> user_id,
                                       role |-> role, metadata |-> "message",
                                       order_id |-> <<>>])
            /\ last_result' = [messages |-> <<>>, total |-> 0, raised |-> None]
       ELSE /\ last_result' = [messages |-> <<>>, total |-> 0,
                               raised |-> "ChatHistoryServiceError"]
            /\ UNCHANGED chat_history
    /\ UNCHANGED <<guion_sessions, guion_response, guion_calls, in_flight>>
    /\ UNCHANGED <<order_vars, orch_vars>>

\* SELECT ... WHERE session_id = :session_id ORDER BY created_at
RECURSIVE MessagesOf(_, _)
MessagesOf(history, session_id) ==
    IF history = <<>> THEN <<>>
    ELSE IF Head(history).session_id = session_id
    THEN <<Head(history)>> \o MessagesOf(Tail(history), session_id)
    ELSE MessagesOf(Tail(history), session_id)

\* if messages[0].user_id != user_id: return [], 0
OwnedBy(messages, user_id) == messages[1].user_id = user_id

\* ChatHistoryService.get_session_messages and the get_session_history it
\* calls: the page limit/offset of the session's messages, oldest first, or
\* nothing when a user_id is given and the first message of the page is not
\* that user's. Every exception returns ([], 0).
get_session_messages(history, session_id, limit, offset, user_id, storage_ok) ==
    LET all == MessagesOf(history, session_id)
        last == IF offset + limit < Len(all) THEN offset + limit ELSE Len(all)
        messages == SubSeq(all, offset + 1, last)
    IN IF ~storage_ok THEN [messages |-> <<>>, total |-> 0, raised |-> None]
       ELSE IF user_id # None /\ messages # <<>> /\ ~OwnedBy(messages, user_id)
       THEN [messages |-> <<>>, total |-> 0, raised |-> None]
       ELSE [messages |-> messages, total |-> Len(all), raised |-> None]

GetSessionMessages(session_id, limit, offset, user_id, storage_ok) ==
    /\ last_call' = [op |-> "get_session_messages", session_id |-> session_id,
                     user_id |-> user_id, limit |-> limit, offset |-> offset]
    /\ last_result' = get_session_messages(chat_history, session_id, limit, offset, user_id,
                                           storage_ok)
    /\ UNCHANGED <<order_vars, orch_vars, guion_vars>>

NextChatHistory ==
    \/ \E session_id \in SessionIds, user_id \in Users, role \in {"USER", "AGENT"},
          storage_ok \in BOOLEAN :
          AddMessage(session_id, user_id, role, storage_ok)
    \/ \E session_id \in SessionIds, limit \in 1..MaxLimit, offset \in 0..1,
          user_id \in Users \cup {None}, storage_ok \in BOOLEAN :
          GetSessionMessages(session_id, limit, offset, user_id, storage_ok)

\* The chat history written and read by the logged-in users
SpecChatHistory == Init /\ [][NextChatHistory]_vars

\* C30: a read of a session's messages for a given user returns no message of
\* another user: when the records are not the requester's the read returns
\* nothing.
C30_NoCrossUserRead ==
    (last_call.op = "get_session_messages" /\ last_call.user_id # None) =>
        \A i \in 1..Len(last_result.messages) :
            last_result.messages[i].user_id = last_call.user_id

(* ---------------- BusinessMutation.create_order / cancel_order ---------- *)

\* role of the token's payload: 1 is the administrator, 2 a client.
AdminRole == 1
ClientRole == 2

\* get_current_user(info): None without a valid token, else the payload.
Anonymous == [authenticated |-> FALSE, id |-> None, role |-> 0]
CurrentUsers ==
    {Anonymous} \cup {[authenticated |-> TRUE, id |-> u, role |-> r] :
                         u \in Users, r \in {AdminRole, ClientRole}}

\* CreateOrderResponse(success, message, error)
CreateOrderResponse(success, message, error) ==
    [success |-> success, message |-> message, error |-> error]

\* "for detail in order.details": every line's quantity goes back to its
\* product, in the session of cancel_order.
RECURSIVE RestoreDetails(_, _)
RestoreDetails(sess, details) ==
    IF details = <<>>
    THEN sess
    ELSE RestoreDetails(IF Head(details).product_id \in Products
                        THEN Restore(sess, Head(details).product_id, Head(details).quantity)
                        ELSE sess,
                        Tail(details))

\* What the mutation found before it acted: the caller, the order asked for
\* and its row, and quantity_available of every product.
MutationCall(op, current_user, order_id) ==
    [op |-> op, current_user |-> current_user, order_id |-> order_id,
     found |-> order_id \in 1..Len(orders),
     owner |-> IF order_id \in 1..Len(orders) THEN orders[order_id].user_id ELSE None,
     status |-> IF order_id \in 1..Len(orders) THEN orders[order_id].status ELSE None,
     stocks |-> Quantities(product_stocks)]

\* The create_order mutation for an input of one line (mutations.py 60-168):
\* the order is created for the user of the token.
CreateOrderMutation(current_user, item, storage_ok) ==
    LET p == item.product_id
        session == Decrement(EmptySession, p, item.quantity)
        detail == OrderDetail(p, product_stocks[p], item.quantity)
    IN
    /\ Quiescent
    /\ calls < MaxCalls
    /\ calls' = calls + 1
    /\ last_call' = MutationCall("create_order", current_user, Len(orders) + 1)
    /\ IF ~current_user.authenticated
       THEN /\ last_result' = CreateOrderResponse(FALSE, "Debes iniciar sesion", "unauthorized")
            /\ UNCHANGED <<product_stocks, orders, result, last_create>>
       ELSE IF ~SelectActiveProduct(p)
       THEN /\ last_result' = CreateOrderResponse(FALSE, "ProductNotFoundError",
                                                  "product_not_found")
            /\ result' = Failure("create", "ProductNotFoundError", NoOrder, 1, p)
            /\ last_create' = NoCreate
            /\ UNCHANGED <<product_stocks, orders>>
       ELSE IF InsufficientStock(Available(EmptySession, p), item.quantity)
       THEN /\ last_result' = CreateOrderResponse(FALSE, "InsufficientStockError",
                                                  "insufficient_stock")
            /\ result' = Failure("create", "InsufficientStockError", NoOrder, 1, p)
            /\ last_create' = NoCreate
            /\ UNCHANGED <<product_stocks, orders>>
       ELSE IF ~storage_ok
       THEN /\ last_result' = CreateOrderResponse(FALSE, "OrderServiceError", "order_error")
            /\ result' = Failure("create", "OrderServiceError", NoOrder, 1, "none")
            /\ last_create' = NoCreate
            /\ product_stocks' = Rollback(product_stocks, session)
            /\ UNCHANGED orders
       ELSE /\ product_stocks' = Flush(product_stocks, session)
            /\ orders' = Append(orders, PersistOrder(current_user.id, <<detail>>))
            /\ result' = Success("create", Len(orders) + 1)
            /\ last_create' = [order |-> Len(orders) + 1,
                               before |-> StockAntes(product_stocks, session, <<detail>>),
                               details |-> <<detail>>]
            /\ last_result' = CreateOrderResponse(TRUE, "created", None)
    /\ UNCHANGED <<init_stock, txn>>
    /\ UNCHANGED <<orch_vars, guion_vars>>

\* A mutation that also refuses a caller who is neither the owner of the
\* order nor an administrator.
MayCancel_OwnerOrAdmin(current_user, order_id) ==
    /\ current_user.authenticated
    /\ order_id \in 1..Len(orders) =>
          \/ orders[order_id].user_id = current_user.id
          \/ current_user.role = AdminRole

\* "current_user = get_current_user(info); if not current_user: return
\* unauthorized" is the only test made before order_service.cancel_order.
MayCancel(current_user, order_id) == current_user.authenticated

\* The cancel_order mutation (mutations.py 170-247): cancel_order of the
\* service runs as one transaction.
CancelOrderMutation(current_user, order_id, storage_ok) ==
    LET session == RestoreDetails(EmptySession, orders[order_id].details) IN
    /\ Quiescent
    /\ calls < MaxCalls
    /\ calls' = calls + 1
    /\ last_call' = MutationCall("cancel_order", current_user, order_id)
    /\ IF ~MayCancel(current_user, order_id)
       THEN /\ last_result' = CreateOrderResponse(FALSE, "No autenticado", "unauthorized")
            /\ UNCHANGED <<product_stocks, orders, result>>
       ELSE IF order_id > Len(orders)
       THEN /\ last_result' = CreateOrderResponse(FALSE, PedidoNoEncontrado, "cancel_failed")
            /\ result' = Failure("cancel", PedidoNoEncontrado, order_id, 0, "none")
            /\ UNCHANGED <<product_stocks, orders>>
       ELSE IF NotCancellable(orders[order_id].status)
       THEN /\ last_result' = CreateOrderResponse(FALSE, NoSePuedeCancelar, "cancel_failed")
            /\ result' = Failure("cancel", NoSePuedeCancelar, order_id, 0, "none")
            /\ UNCHANGED <<product_stocks, orders>>
       ELSE IF ~storage_ok
       THEN /\ last_result' = CreateOrderResponse(FALSE, ErrorCancelando, "cancel_failed")
            /\ result' = Failure("cancel", ErrorCancelando, order_id, 0, "none")
            /\ product_stocks' = Rollback(product_stocks, session)
            /\ UNCHANGED orders
       ELSE /\ product_stocks' = Flush(product_stocks, session)
            /\ orders' = [orders EXCEPT ![order_id] =
                            [@ EXCEPT !.status = CANCELLED, !.payment_status = "REFUNDED"]]
            /\ result' = Success("cancel", order_id)
            /\ last_result' = CreateOrderResponse(TRUE, "Pedido cancelado exitosamente", None)
    /\ last_create' = IF last_create.order = order_id THEN last_create ELSE NoCreate
    /\ UNCHANGED <<init_stock, txn>>
    /\ UNCHANGED <<orch_vars, guion_vars>>

NextOrderMutations ==
    \/ \E u \in CurrentUsers, item \in Items, ok \in BOOLEAN : CreateOrderMutation(u, item, ok)
    \/ \E u \in CurrentUsers, o \in OrderIds, ok \in BOOLEAN : CancelOrderMutation(u, o, ok)

SpecOrderMutations == Init /\ [][NextOrderMutations]_vars

\* C31: the cancel_order mutation requires authentication, and a cancel
\* request by a caller who is neither the owner of the order nor an
\* administrator leaves the status of the order and every stock as they were.
C31_OnlyOwnerOrAdminCancels ==
    last_call.op = "cancel_order" =>
        /\ ~last_call.current_user.authenticated =>
              /\ last_result.error = "unauthorized"
              /\ Quantities(product_stocks) = last_call.stocks
              /\ last_call.found => orders[last_call.order_id].status = last_call.status
        /\ (/\ last_call.current_user.authenticated
            /\ last_call.found
            /\ last_call.owner # last_call.current_user.id
            /\ last_call.current_user.role # AdminRole) =>
              /\ orders[last_call.order_id].status = last_call.status
              /\ Quantities(product_stocks) = last_call.stocks

\* C32: no reply of a turn carries the text of the exception that was raised
\* while the turn was served.
C32_NoExceptionTextInReply ==
    (guion_response.raised # "none" /\ result.error = guion_response.raised) =>
        ~Contains(guion_response.mensaje_texto, str_exception(result))

\* The keyword counts of a query, per label.
KeywordScores(user_query) ==
    [search |-> KeywordScore(search_keywords, lower(user_query)),
     checkout |-> KeywordScore(checkout_keywords, lower(user_query)),
     info |-> KeywordScore(info_keywords, lower(user_query)),
     persuasion |-> KeywordScore(persuasion_keywords, lower(user_query))]

\* The labels whose count is the highest one.
TopLabels(scores) == {l \in Intents : \A m \in Intents : scores[l] >= scores[m]}

\* C33: on the keyword path the label with the highest non-zero count wins;
\* a tie goes to persuasion, or with prior search results to checkout if a
\* checkout keyword matched and to persuasion otherwise; a query without
\* keywords is persuasion with confidence 1/3.
C33_KeywordPathPicksHighestCount ==
    last_call.op = "_classify_intent_keywords" =>
        LET scores == KeywordScores(last_call.user_query)
            top == TopLabels(scores)
        IN IF \A l \in Intents : scores[l] = 0
           THEN /\ last_result.intent = "persuasion"
                /\ last_result.confidence = ConfidenceOne \div 3
           ELSE IF Cardinality(top) = 1
           THEN last_result.intent \in top
           ELSE IF ~last_call.has_search_results
           THEN last_result.intent = "persuasion"
           ELSE last_result.intent =
                   (IF scores.checkout > 0 THEN "checkout" ELSE "persuasion")

(* ------------- ProductComparisonService.compare_and_recommend ----------- *)

\* ProductComparisonSchema(id, product_name, final_price, recommendation_score)
\* of a scored product
ProductComparisonSchema(sp) ==
    [id |-> sp.id,
     product_name |-> product_stocks[sp.id].product_name,
     final_price |-> final_price(product_stocks[sp.id]),
     recommendation_score |-> sp.total_score]

\* compare_and_recommend for the products of a guion: ValueError when none of
\* them is in the catalogue, else the projections in ranking order.
CompareAndRecommend(productos) ==
    LET products == get_products_by_barcodes([i \in 1..Len(productos) |->
                                                 productos[i].codigo_barras])
        ranked == compare_and_recommend(productos, products)
    IN
    /\ last_call' = [op |-> "compare_and_recommend", productos |-> productos]
    /\ last_result' =
          IF ranked = <<>>
          THEN [raised |-> "ValueError", products |-> <<>>, best_option_id |-> None]
          ELSE [raised |-> "none",
                products |-> [i \in 1..Len(ranked) |-> ProductComparisonSchema(ranked[i])],
                best_option_id |-> best_option_id(ranked)]
    /\ UNCHANGED <<order_vars, orch_vars, guion_vars>>

NextComparator == \E productos \in GuionProductos : CompareAndRecommend(productos)

SpecComparator == Init /\ [][NextComparator]_vars

\* The order of product names: "name p1" before "name p2" before "name p3".
NameBefore(a, b) ==
    \E i, j \in 1..3 : /\ a = <<"name", <<"p1", "p2", "p3">>[i]>>
                       /\ b = <<"name", <<"p1", "p2", "p3">>[j]>>
                       /\ i < j

\* a is ranked before b: higher score, or the same score and a lower final
\* price, or the same score and price and the name that sorts first.
RankedBefore(a, b) ==
    \/ a.recommendation_score > b.recommendation_score
    \/ /\ a.recommendation_score = b.recommendation_score
       /\ \/ a.final_price < b.final_price
          \/ a.final_price = b.final_price /\ NameBefore(a.product_name, b.product_name)

\* C34: the ranked list of the Comparator is sorted by score descending, ties
\* broken by lower final price and then by name ascending.
C34_RankingSortedWithTieBreaks ==
    last_call.op = "compare_and_recommend" =>
        \A i, j \in 1..Len(last_result.products) :
            i < j => RankedBefore(last_result.products[i], last_result.products[j])

(* ------------------- one script session, call after call ---------------- *)

\* The calls made on a session that procesar_guion_agente2 has stored: a new
\* guion for it (products of equal score, so that the ranking is the order
\* of the guion), or a reply of the user, one call at a time.
NextGuionSesion ==
    \/ \E productos \in {g \in GuionProductos : \A i \in 1..Len(g) : g[i].total_score = 40} :
          ProcesarGuionAgente2(TRUE, "s1", productos, "neutral", TRUE, "compra_directa", TRUE, 2)
    \/ \E respuesta_usuario \in {RespuestaSi, RespuestaNo, RespuestaEnvioLoja, RespuestaPregunta},
          redis_set_ok \in BOOLEAN, storage_ok \in BOOLEAN :
          ContinuarConversacion(TRUE, "s1", respuesta_usuario, TRUE,
                                redis_set_ok, OrderUuidA, storage_ok, 2)
    \/ ExpireSessions

\* Calls made on the session after the first guion.
MaxSesionCalls == 3

\* The session is stored and MaxSesionCalls calls are still to come.
InitSesion ==
    /\ InitOrders /\ IdleOrchestrator /\ session_store = NoSession /\ InitServices
    /\ SesionProcesada
    /\ guion_calls = MaxGuionCalls - MaxSesionCalls

SpecGuionSesion == InitSesion /\ [][NextGuionSesion]_vars

\* The stored session points at one of its products and recommends it.
PointerInRange(session_data) ==
    /\ 0 <= session_data.current_index
    /\ session_data.current_index < Len(session_data.productos)
    /\ session_data.mejor_opcion_id = session_data.productos[session_data.current_index + 1].id

\* C35: every stored session has 0 <= current_index < len(productos) and
\* mejor_opcion_id = productos[current_index].id, and an order created by a
\* continuation is for that product.
C35_PointerAndBestIdAgree ==
    /\ \A s \in SessionIds : SessionFound(guion_sessions[s]) => PointerInRange(guion_sessions[s])
    /\ (/\ guion_response.op = "continuar_conversacion"
        /\ guion_response.order # NoOrder
        /\ SessionFound(guion_sessions[guion_response.session_id])) =>
          LET session_data == guion_sessions[guion_response.session_id] IN
          /\ Len(orders[guion_response.order].details) = 1
          /\ orders[guion_response.order].details[1].product_id = session_data.mejor_opcion_id
          /\ session_data.mejor_opcion_id = session_data.productos[session_data.current_index + 1].id

\* C35 witness: after a rejection moved the pointer to the second product, a
\* continuation created the order for it.
C35_Witness ==
    /\ guion_response.op = "continuar_conversacion"
    /\ guion_response.order # NoOrder
    /\ SessionFound(guion_sessions[guion_response.session_id])
    /\ guion_sessions[guion_response.session_id].current_index = 1
    /\ orders[guion_response.order].details[1].product_id =
          guion_sessions[guion_response.session_id].productos[2].id

\* The reply is handled by the rejection branch.
EsRechazo(respuesta_usuario) ==
    es_rechazo(respuesta_usuario) /\ ~es_aprobacion(respuesta_usuario)

C37_AtMostOneOrderPerSession ==
    [][\A s \in SessionIds :
          (/\ guion_calls' = guion_calls + 1
           /\ guion_response'.op = "continuar_conversacion"
           /\ guion_response'.session_id = s
           /\ SessionFound(guion_sessions[s])
           /\ guion_sessions[s].order_created) =>
             /\ orders' = orders
             /\ Quantities(product_stocks') = Quantities(product_stocks)]_vars

\* The turns of session s that changed the product on offer: the guion that
\* opened the session and the rejections answered with an alternative.
OfferChanges(s) ==
    {i \in 1..Len(chat_history) :
        /\ chat_history[i].session_id = s
        /\ chat_history[i].role = "USER"
        /\ \/ chat_history[i].metadata = "guion_inicial"
           \/ /\ chat_history[i].metadata = "rechazo"
              /\ i < Len(chat_history)
              /\ chat_history[i + 1].metadata = "confirmar_compra"}

\* An affirmative reply of session s was recorded after every change of the
\* product on offer.
ApprovedCurrentOffer(s) ==
    \E j \in 1..Len(chat_history) :
        /\ chat_history[j].session_id = s
        /\ chat_history[j].role = "USER"
        /\ chat_history[j].metadata = "aprobacion"
        /\ \A i \in OfferChanges(s) : i < j

\* C38: a continuation call creates an order only when the stored session is
\* approved and the approval was given after the last change of the product
\* on offer.
C38_OrderOnlyAfterApproval ==
    [][\A s \in SessionIds :
          (/\ guion_calls' = guion_calls + 1
           /\ guion_response'.op = "continuar_conversacion"
           /\ guion_response'.session_id = s
           /\ Len(orders') > Len(orders)) =>
             /\ guion_sessions[s].approved
             /\ ApprovedCurrentOffer(s)]_vars

(* -------------------- the agents of the orchestrator -------------------- *)

\* A response of an agent: it keeps the turn, or asks for a transfer.
AgentReturns(should_transfer, transfer_to) ==
    [agent_name |-> "agent", should_transfer |-> should_transfer, transfer_to |-> transfer_to,
     error |-> "none", stop_intent |-> FALSE, message |-> "agent_message"]

\* RetrieverAgent.process: every response either keeps the turn (FAQ answered,
\* more than five products) or asks for "sales".
RetrieverOutcomes ==
    {AgentReturns(FALSE, None), AgentReturns(TRUE, "sales"), AgentRaised}

\* A sales agent that sends the customer back to the search.
SalesOutcomes_ToRetriever ==
    {AgentReturns(FALSE, None), AgentReturns(TRUE, "checkout"),
     AgentReturns(TRUE, "retriever"), AgentRaised}

\* SalesAgent.process: _procesar_guion asks for "checkout" on an intention to
\* buy, every other response keeps the turn.
SalesOutcomes ==
    {AgentReturns(FALSE, None), AgentReturns(TRUE, "checkout"), AgentRaised}

\* What process of the agent registered under a name can do.
OutcomesOf(agent_name) ==
    IF agent_name = "retriever" THEN RetrieverOutcomes
    ELSE IF agent_name = "sales" THEN SalesOutcomes
    ELSE {AgentRaised}

\* Turns of the orchestrator served by the agents it registers.
NextRegisteredAgents ==
    \/ \E stage \in CheckoutStages \cup {None}, style \in Styles \cup {None},
          query \in Queries :
          ProcessQueryBegin(stage, style, query)
    \/ \E detected \in Styles \cup {Raises} : DetectStyle(detected)
    \/ \E classified \in Intents \cup {Raises} : ClassifyIntent(classified)
    \/ \E returned \in OutcomesOf(current_agent_name) : RunAgent(returned)
    \/ \E returned \in OutcomesOf(response.transfer_to) : TransferStep(returned)
    \/ ProcessQueryEnd

SpecRegisteredAgents == Init /\ [][NextRegisteredAgents]_vars

\* The agents process was called on during the turn, in order.
AgentsInvoked == SelectSeq(invoked, LAMBDA name : name \in Agents)

\* C39: in a turn at most one transfer from an agent to another is carried
\* out; the retriever is only ever left for sales and sales is never left for
\* the retriever.
C39_AtMostOneTransferPerTurn ==
    /\ Len(AgentsInvoked) <= 2
    /\ \A i \in 1..Len(transfer_history) :
          /\ transfer_history[i][1] = "retriever" => transfer_history[i][2] = "sales"
          /\ transfer_history[i][1] = "sales" => transfer_history[i][2] # "retriever"

\* C39 witness: the retriever handed the turn to sales, sales asked for the
\* checkout, which no agent serves, and the turn ended there.
C39_Witness ==
    /\ pc = "done"
    /\ AgentsInvoked = <<"retriever", "sales">>
    /\ transfer_history = <<transfer_key("retriever", "sales"), transfer_key("sales", "checkout")>>

====
